---- MODULE Spec2Model ----
(***************************************************************************)
(* A model of the JSON query engine midbel/query: the streaming JSON       *)
(* reader (src/filter.go, second draft, lines 424-986), the query tree     *)
(* (src/unnamed/part_005) and the evaluation of a parsed query over a      *)
(* document, one step of the reader's recursive descent per action.        *)
(*                                                                         *)
(* Text (documents, keys, captured spans, rendered output) is a sequence   *)
(* of one-character strings.  The rune 0 that ReadRune returns at the end  *)
(* of input is the empty string NUL.  The line/column counters of the      *)
(* reader only feed error messages and are left out; an error is modelled  *)
(* by its kind.                                                            *)
(***************************************************************************)
EXTENDS Integers, Sequences, FiniteSets, TLC

\* ------------------------------------------------------------------ runes

NUL == ""

Digits == {"0", "1", "2", "3", "4", "5", "6", "7", "8", "9"}

Letters == {"a", "b", "c", "d", "e", "f", "g", "h", "i", "j", "k", "l", "m",
            "n", "o", "p", "q", "r", "s", "t", "u", "v", "w", "x", "y", "z"}

jsonSep(c) == c = "," \/ c = ":"

jsonBlank(c) == c = " " \/ c = "\t" \/ c = "\r" \/ c = "\n"

jsonQuote(c) == c = "\""

jsonArray(c) == c = "["

jsonObject(c) == c = "{"

jsonDigit(c) == c \in Digits

jsonIdent(c) == c = "t" \/ c = "f" \/ c = "n"

jsonLetter(c) == c \in Letters

jsonHex(c) == jsonDigit(c) \/ c \in {"a", "b", "c", "d", "e", "f"}
                           \/ c \in {"A", "B", "C", "D", "E", "F"}

\* ------------------------------------------------------------- errors

ErrNil == "nil"
ErrEOF == "EOF"                   \* io.EOF
ErrMalformed == "malformed"       \* MalformedError
ErrSkip == "skip"                 \* errSkip
ErrDone == "done"                 \* errDone
ErrNoQuery == "no query selected"
ErrLiteral == "literal query can not be updated"

\* ------------------------------------------------- the rune scanner

(* The reader's state: the bufio.Reader under it (doc, pos, canUnread: the  *)
(* last call was a ReadRune that returned a rune), the reader's keepBlank   *)
(* flag, and the compact wrapper when one is installed (wrapped, last,     *)
(* scanstr, buf).  panic records a bytes.Buffer.Truncate out of range.     *)
prepare(doc) ==
    [doc |-> doc, pos |-> 0, canUnread |-> FALSE, keepBlank |-> FALSE,
     wrapped |-> FALSE, last |-> NUL, scanstr |-> FALSE, buf |-> <<>>,
     panic |-> FALSE]

\* bufio.Reader.ReadRune
BufReadRune(r) ==
    IF r.pos >= Len(r.doc)
    THEN [rd |-> [r EXCEPT !.canUnread = FALSE], c |-> NUL, err |-> ErrEOF]
    ELSE [rd |-> [r EXCEPT !.pos = @ + 1, !.canUnread = TRUE],
          c |-> r.doc[r.pos + 1], err |-> ErrNil]

\* bufio.Reader.UnreadRune: fails unless the last call was a ReadRune
BufUnreadRune(r) ==
    IF r.canUnread
    THEN [rd |-> [r EXCEPT !.pos = @ - 1, !.canUnread = FALSE], err |-> ErrNil]
    ELSE [rd |-> r, err |-> "invalid unread"]

toggle(r, c) ==
    [r EXCEPT !.scanstr = IF c = "\"" /\ r.last # "\\" THEN ~@ ELSE @,
              !.last = c]

keep(r, c) == ~jsonBlank(c) \/ r.scanstr

(* A value that a function computes once and uses several times is the    *)
(* argument of a local operator: LET on(x) == ... IN on(read(r)).          *)
CompactReadRune(r) ==
    LET kept(u, t) ==
            [rd |-> IF u.err = ErrNil /\ keep(t, u.c)
                    THEN [t EXCEPT !.buf = IF ~t.scanstr /\ jsonSep(u.c)
                                           THEN @ \o <<u.c, " ">>
                                           ELSE Append(@, u.c),
                                   !.last = u.c]
                    ELSE t,
             c |-> u.c, err |-> u.err]
        on(u) == kept(u, toggle(u.rd, u.c))
    IN  on(BufReadRune(r))

CompactUnreadRune(r) ==
    LET cut(u, size, n) ==
            IF u.err = ErrNil /\ n > 0
            THEN IF size > n
                 THEN [rd |-> [u.rd EXCEPT !.panic = TRUE], err |-> ErrNil]
                 ELSE [rd |-> toggle([u.rd EXCEPT !.buf = SubSeq(@, 1, n - size)],
                                     u.rd.last),
                       err |-> ErrNil]
            ELSE u
        on(u) == cut(u, IF ~u.rd.scanstr /\ jsonSep(u.rd.last) THEN 2 ELSE 1,
                     Len(u.rd.buf))
    IN  on(BufUnreadRune(r))

ReadRune(r) == IF r.wrapped THEN CompactReadRune(r) ELSE BufReadRune(r)

UnreadRune(r) == IF r.wrapped THEN CompactUnreadRune(r) ELSE BufUnreadRune(r)

\* wrap (function) and reader.wrap: a wrapper already installed is kept
wrap(r) ==
    IF r.wrapped THEN r
    ELSE [r EXCEPT !.wrapped = TRUE, !.last = NUL, !.scanstr = FALSE,
                   !.buf = <<>>]

\* reader.unwrap: the reader without its wrapper, and the wrapper's text
unwrap(r) ==
    IF r.wrapped
    THEN [rd |-> [r EXCEPT !.wrapped = FALSE, !.last = NUL,
                           !.scanstr = FALSE, !.buf = <<>>],
          str |-> r.buf]
    ELSE [rd |-> r, str |-> <<>>]

RECURSIVE read(_)
read(r) ==
    LET on(x) == IF x.rd.keepBlank \/ ~jsonBlank(x.c) THEN x ELSE read(x.rd)
    IN  on(ReadRune(r))

unread(r) == UnreadRune(r).rd

toggleBlank(r) == [r EXCEPT !.keepBlank = ~@]

\* ------------------------------------------------------------ scalars

Ret(r, e, v) == [rd |-> r, err |-> e, val |-> v]

RECURSIVE hex(_, _, _)
hex(r, buf, i) ==
    LET on(x) == IF ~jsonHex(x.c) THEN Ret(x.rd, ErrMalformed, buf)
                 ELSE hex(x.rd, Append(buf, x.c), i + 1)
    IN  IF i >= 4 THEN Ret(r, ErrNil, buf) ELSE on(read(r))

escape(r, buf) ==
    LET on(x, b) ==
            IF x.c \in {"n", "f", "b", "r", "\"", "\\", "/"}
            THEN Ret(x.rd, ErrNil, Append(b, x.c))
            ELSE IF x.c = "u" THEN hex(x.rd, Append(b, x.c), 0)
            ELSE Ret(x.rd, ErrMalformed, b)
    IN  on(read(r), Append(buf, "\\"))

RECURSIVE literalLoop(_, _)
literalLoop(r, buf) ==
    LET escaped(e) == IF e.err # ErrNil THEN Ret(e.rd, e.err, <<>>)
                      ELSE literalLoop(e.rd, e.val)
        on(x) == IF x.err # ErrNil THEN Ret(x.rd, x.err, <<>>)
                 ELSE IF jsonQuote(x.c) THEN Ret(x.rd, ErrNil, buf)
                 ELSE IF x.c = "\\" THEN escaped(escape(x.rd, buf))
                 ELSE literalLoop(x.rd, Append(buf, x.c))
    IN  on(read(r))

literal(r) ==
    LET on(res) == [res EXCEPT !.rd = toggleBlank(@)]
    IN  on(literalLoop(toggleBlank(r), <<>>))

RECURSIVE identLoop(_, _)
identLoop(r, buf) ==
    LET on(x) == IF x.err # ErrNil \/ ~jsonLetter(x.c) THEN Ret(x.rd, ErrNil, buf)
                 ELSE identLoop(x.rd, Append(buf, x.c))
    IN  on(read(r))

identifier(r) ==
    LET on(l) ==
            Ret(unread(l.rd),
                IF l.val \in {<<"t", "r", "u", "e">>, <<"f", "a", "l", "s", "e">>,
                              <<"n", "u", "l", "l">>}
                THEN ErrNil ELSE ErrMalformed,
                l.val)
    IN  on(identLoop(unread(r), <<>>))

\* the loop `for { c, _ := r.read(); if !jsonDigit(c) { break }; ... }`
RECURSIVE digits(_, _)
digits(r, buf) ==
    LET on(x) == IF ~jsonDigit(x.c) THEN Ret(x.rd, ErrNil, buf)
                 ELSE digits(x.rd, Append(buf, x.c))
    IN  on(read(r))

exponent(r, buf, exp) ==
    LET done(d) == Ret(unread(d.rd), ErrNil, d.val)
        first(x, b) ==
            IF ~jsonDigit(x.c) \/ x.c = "0"
            THEN Ret(unread(x.rd), ErrMalformed, b)
            ELSE done(digits(x.rd, Append(b, x.c)))
        on(x, b) ==
            IF x.c = "-" \/ x.c = "+"
            THEN first(read(x.rd), Append(b, x.c))
            ELSE first(x, b)
    IN  on(read(r), Append(buf, exp))

fraction(r, buf) ==
    LET exp(e) == Ret(unread(e.rd), e.err, e.val)
        after(d, y) ==
            IF y.c = "e" \/ y.c = "E"
            THEN exp(exponent(y.rd, d.val, y.c))
            ELSE Ret(unread(y.rd), ErrNil, d.val)
        frac(d) == after(d, read(unread(d.rd)))
        on(x) == IF ~jsonDigit(x.c) THEN Ret(x.rd, ErrMalformed, buf)
                 ELSE frac(digits(unread(x.rd), Append(buf, ".")))
    IN  on(read(r))

number(r) ==
    LET zero(y) ==
            IF y.c = "."
            THEN fraction(y.rd, <<"0">>)
            ELSE IF jsonBlank(y.c) \/ y.c \in {",", "}", "]"}
            THEN Ret(unread(y.rd), ErrNil, <<"0">>)
            ELSE Ret(y.rd, ErrMalformed, <<>>)
        after(d, y) ==
            IF y.c = "."
            THEN fraction(y.rd, d.val)
            ELSE IF y.c = "e" \/ y.c = "E"
            THEN exponent(y.rd, d.val, y.c)
            ELSE Ret(unread(y.rd), ErrNil, d.val)
        int(d) == after(d, read(unread(d.rd)))
        on(x) == IF x.c = "0" THEN zero(read(x.rd))
                 ELSE int(digits(unread(x.rd), <<>>))
    IN  on(read(unread(r)))

\* reader.key: the quoted key and the ':' after it
key(r) ==
    LET colon(l, y) == IF y.c # ":" THEN Ret(y.rd, ErrMalformed, <<>>)
                       ELSE Ret(y.rd, ErrNil, l.val)
        quoted(l) == IF l.err # ErrNil THEN l ELSE colon(l, read(l.rd))
        on(x) == IF ~jsonQuote(x.c) THEN Ret(x.rd, ErrMalformed, <<>>)
                 ELSE quoted(literal(x.rd))
    IN  on(read(r))

\* reader.endObject / reader.endArray, close being '}' or ']'
endOf(r, close) ==
    LET more(y) == IF y.c = close \/ y.err # ErrNil
                   THEN Ret(y.rd, ErrMalformed, <<>>)
                   ELSE Ret(unread(y.rd), ErrNil, <<>>)
        on(x) == IF x.c = close THEN Ret(x.rd, ErrDone, <<>>)
                 ELSE IF x.c = "," THEN more(read(x.rd))
                 ELSE Ret(x.rd, ErrMalformed, <<>>)
    IN  on(read(r))

endObject(r) == endOf(r, "}")

endArray(r) == endOf(r, "]")

\* ------------------------------------------------------- the query tree

(* The query tree is a heap of nodes: h[id] is the node with handle id, 0   *)
(* is the nil Query.  `next` is the child of an ident or index, `inner`     *)
(* the embedded Query of a pipeline (its head), ptr (its target) or         *)
(* recurse; `kids` holds any.list, array.list, pipeline.queries and, for an *)
(* object, the queries of the fields named by `fkeys` (the map `fields`).   *)
Node(kind) ==
    [kind |-> kind, name |-> <<>>, value |-> <<>>, list |-> <<>>, next |-> 0,
     inner |-> 0, kids |-> <<>>, fkeys |-> <<>>, values |-> <<>>, last |-> 0,
     keys |-> <<>>]

All == Node("all")

Pointer(q) == [Node("ptr") EXCEPT !.inner = q]

Recurse(q) == [Node("recurse") EXCEPT !.inner = q]

Value(str) == [Node("literal") EXCEPT !.value = str]

IdentNext(k, next) == [Node("ident") EXCEPT !.name = k, !.next = next]

IndexNext(list, next) == [Node("index") EXCEPT !.list = list, !.next = next]

AnyQ(list) == [Node("any") EXCEPT !.kids = list]

Array(list) == [Node("array") EXCEPT !.kids = list]

Object(ks, qs) == [Node("object") EXCEPT !.fkeys = ks, !.kids = qs]

PipeLine(q, next) == [Node("pipeline") EXCEPT !.inner = q, !.kids = next]

keepAll(h, q) == q # 0 /\ h[q].kind = "all"

InSeq(x, s) == \E i \in 1..Len(s) : s[i] = x

\* the order in which a map of m entries is iterated, Go leaving it open:
\* perm is a permutation of 1..n, n >= m
MapOrder(m, perm) == SelectSeq(perm, LAMBDA i : i <= m)

QRet(h, q, e) == [h |-> h, next |-> q, err |-> e]

RECURSIVE Clone(_, _), CloneList(_, _, _, _)

\* the clones of ids[i..], appended to acc
CloneList(h, ids, i, acc) ==
    IF i > Len(ids) THEN [h |-> h, ids |-> acc]
    ELSE LET c == Clone(h, ids[i])
         IN  CloneList(c.h, ids, i + 1, Append(acc, c.id))

Clone(h, q) ==
    LET n == h[q]
        new(hh, node) == [h |-> Append(hh, node), id |-> Len(hh) + 1]
    IN  CASE n.kind = "ptr" -> [h |-> h, id |-> q]
          [] n.kind = "all" -> new(h, All)
          [] n.kind = "literal" -> new(h, Value(n.value))
          [] n.kind = "recurse" ->
                LET c == Clone(h, n.inner) IN new(c.h, Recurse(c.id))
          [] n.kind = "pipeline" ->
                LET c == Clone(h, n.inner)
                    l == CloneList(c.h, n.kids, 1, <<>>)
                IN  new(l.h, PipeLine(c.id, l.ids))
          [] n.kind = "ident" ->
                IF n.next = 0 THEN new(h, IdentNext(n.name, 0))
                ELSE LET c == Clone(h, n.next)
                     IN  new(c.h, IdentNext(n.name, c.id))
          [] n.kind = "index" ->
                IF n.next = 0 THEN new(h, IndexNext(n.list, 0))
                ELSE LET c == Clone(h, n.next)
                     IN  new(c.h, IndexNext(n.list, c.id))
          [] n.kind = "any" ->
                LET l == CloneList(h, n.kids, 1, <<>>) IN new(l.h, AnyQ(l.ids))
          [] n.kind = "array" ->
                LET l == CloneList(h, n.kids, 1, <<>>) IN new(l.h, Array(l.ids))
          [] n.kind = "object" ->
                LET l == CloneList(h, n.kids, 1, <<>>)
                IN  new(l.h, Object(n.fkeys, l.ids))

cloneQuery(h, q) ==
    IF h[q].kind = "ptr" THEN Clone(h, h[q].inner) ELSE [h |-> h, id |-> q]

RECURSIVE NextOf(_, _, _, _), anyNext(_, _, _, _, _), arrayNext(_, _, _, _, _),
          objectNext(_, _, _, _, _)

anyNext(h, q, k, perm, i) ==
    IF i > Len(h[q].kids) THEN QRet(h, 0, ErrSkip)
    ELSE LET f == h[q].kids[i]
             x == NextOf(h, f, k, perm)
         IN  IF x.err = ErrNil
             THEN QRet([x.h EXCEPT ![q].last = f], x.next, ErrNil)
             ELSE anyNext(x.h, q, k, perm, i + 1)

arrayNext(h, q, k, perm, i) ==
    IF i > Len(h[q].kids) THEN QRet(h, 0, ErrSkip)
    ELSE LET c == cloneQuery(h, h[q].kids[i])
             h1 == [c.h EXCEPT ![q].kids[i] = c.id]
             x == NextOf(h1, c.id, k, perm)
         IN  IF x.err = ErrNil
             THEN QRet([x.h EXCEPT ![q].last = c.id], x.next, ErrNil)
             ELSE arrayNext(x.h, q, k, perm, i + 1)

\* ord: the fields still to visit, in the map's iteration order
objectNext(h, q, k, perm, ord) ==
    IF ord = <<>> THEN QRet(h, 0, ErrSkip)
    ELSE LET i == Head(ord)
             c == cloneQuery(h, h[q].kids[i])
             h1 == [c.h EXCEPT ![q].kids[i] = c.id]
             x == NextOf(h1, c.id, k, perm)
         IN  IF x.err = ErrNil
             THEN QRet([x.h EXCEPT ![q].keys = Append(@, h[q].fkeys[i])],
                       x.next, ErrNil)
             ELSE objectNext(x.h, q, k, perm, Tail(ord))

\* q.Next(k) with ident.Next matching a key only until it holds a value
NextOfFirstOnly(h, q, k, perm) ==
    LET n == h[q]
    IN  CASE n.kind = "all" -> QRet(h, 0, ErrNil)
          [] n.kind \in {"ptr", "pipeline"} -> NextOf(h, n.inner, k, perm)
          [] n.kind = "recurse" ->
                LET x == NextOf(h, n.inner, k, perm)
                IN  IF x.err # ErrNil THEN QRet(x.h, q, ErrNil) ELSE x
          [] n.kind = "literal" -> QRet(h, 0, ErrSkip)
          [] n.kind = "ident" ->
                IF n.name = k /\ n.values = <<>> THEN QRet(h, n.next, ErrNil)
                ELSE QRet(h, 0, ErrSkip)
          [] n.kind = "index" ->
                IF Len(n.list) = 0 \/ InSeq(k, n.list)
                THEN QRet(h, n.next, ErrNil)
                ELSE QRet(h, 0, ErrSkip)
          [] n.kind = "any" -> anyNext(h, q, k, perm, 1)
          [] n.kind = "array" -> arrayNext(h, q, k, perm, 1)
          [] n.kind = "object" ->
                objectNext(h, q, k, perm, MapOrder(Len(n.fkeys), perm))

\* q.Next(k)
NextOf(h, q, k, perm) ==
    LET n == h[q]
    IN  CASE n.kind = "all" -> QRet(h, 0, ErrNil)
          [] n.kind \in {"ptr", "pipeline"} -> NextOf(h, n.inner, k, perm)
          [] n.kind = "recurse" ->
                LET x == NextOf(h, n.inner, k, perm)
                IN  IF x.err # ErrNil THEN QRet(x.h, q, ErrNil) ELSE x
          [] n.kind = "literal" -> QRet(h, 0, ErrSkip)
          [] n.kind = "ident" ->
                IF n.name = k THEN QRet(h, n.next, ErrNil)
                ELSE QRet(h, 0, ErrSkip)
          [] n.kind = "index" ->
                IF Len(n.list) = 0 \/ InSeq(k, n.list)
                THEN QRet(h, n.next, ErrNil)
                ELSE QRet(h, 0, ErrSkip)
          [] n.kind = "any" -> anyNext(h, q, k, perm, 1)
          [] n.kind = "array" -> arrayNext(h, q, k, perm, 1)
          [] n.kind = "object" ->
                objectNext(h, q, k, perm, MapOrder(Len(n.fkeys), perm))

RECURSIVE clear(_, _), clearList(_, _, _)

\* clear with ident.clear and index.clear passing to the next node without
\* emptying their own values
clearKeepsValues(h, q) ==
    LET n == h[q]
    IN  CASE n.kind \in {"ptr", "literal"} -> h
          [] n.kind \in {"pipeline", "recurse"} -> clear(h, n.inner)
          [] n.kind = "all" -> [h EXCEPT ![q].value = <<>>]
          [] n.kind \in {"ident", "index"} ->
                IF n.next # 0 THEN clear(h, n.next) ELSE h
          [] n.kind \in {"any", "array"} ->
                [clearList(h, n.kids, 1) EXCEPT ![q].last = 0]
          [] n.kind = "object" ->
                [clearList(h, n.kids, 1) EXCEPT ![q].keys = <<>>]

clearList(h, ids, i) ==
    IF i > Len(ids) THEN h ELSE clearList(clear(h, ids[i]), ids, i + 1)

clear(h, q) ==
    LET n == h[q]
    IN  CASE n.kind \in {"ptr", "literal"} -> h
          [] n.kind \in {"pipeline", "recurse"} -> clear(h, n.inner)
          [] n.kind = "all" -> [h EXCEPT ![q].value = <<>>]
          [] n.kind \in {"ident", "index"} ->
                LET h1 == [h EXCEPT ![q].values = <<>>]
                IN  IF n.next # 0 THEN clear(h1, n.next) ELSE h1
          [] n.kind \in {"any", "array"} ->
                [clearList(h, n.kids, 1) EXCEPT ![q].last = 0]
          [] n.kind = "object" ->
                [clearList(h, n.kids, 1) EXCEPT ![q].keys = <<>>]

\* ----------------------------------------------------------- rendering

RECURSIVE Flatten(_)
Flatten(ss) == IF ss = <<>> THEN <<>> ELSE Head(ss) \o Flatten(Tail(ss))

RECURSIVE Join(_)
\* the texts of ss separated by ", "
Join(ss) ==
    IF ss = <<>> THEN <<>>
    ELSE IF Len(ss) = 1 THEN ss[1]
    ELSE ss[1] \o <<",", " ">> \o Join(Tail(ss))

writeArray(values) == <<"[">> \o Join(values) \o <<"]">>

writeObject(keys, values) ==
    LET field(vs, j) ==
            <<"\"">> \o keys[j] \o <<"\"", ":", " ">>
            \o (IF j <= Len(vs) THEN vs[j] ELSE <<"n", "u", "l", "l">>)
        obj(vs) ==
            <<"{">> \o Join([j \in 1..Len(keys) |-> field(vs, j)]) \o <<"}">>
        all == Join([i \in 1..Len(values) |-> obj(values[i])])
    IN  IF Len(values) > 1 THEN <<"[">> \o all \o <<"]">> ELSE all

RECURSIVE Combine(_)
\* slices.Combine (github.com/midbel/slices): the Cartesian product of the
\* lists, the first list varying slowest
Combine(lists) ==
    IF lists = <<>> THEN << <<>> >>
    ELSE LET rest == Combine(Tail(lists))
             row(v) == [j \in 1..Len(rest) |-> <<v>> \o rest[j]]
         IN  Flatten([i \in 1..Len(lists[1]) |-> row(lists[1][i])])

RECURSIVE String(_, _, _), Get(_, _, _)

\* any.String with the array left out when one child alone has captured
anyStringUnwrapped(h, q, perm) ==
    LET kids == h[q].kids
        full == {i \in 1..Len(kids) : Get(h, kids[i], perm) # <<>>}
    IN  IF Cardinality(full) = 1
        THEN String(h, kids[CHOOSE i \in full : TRUE], perm)
        ELSE writeArray([i \in 1..Len(kids) |-> String(h, kids[i], perm)])

\* any.String
anyString(h, q, perm) ==
    writeArray([i \in 1..Len(h[q].kids) |-> String(h, h[q].kids[i], perm)])

\* the keys and value lists object.String and object.Get collect
objectColumns(h, q, perm) ==
    LET n == h[q]
        fieldOf(k) == n.kids[CHOOSE i \in 1..Len(n.fkeys) : n.fkeys[i] = k]
        lits == SelectSeq(MapOrder(Len(n.fkeys), perm),
                          LAMBDA i : h[n.kids[i]].kind = "literal")
    IN  [keys |-> n.keys \o [j \in 1..Len(lits) |-> n.fkeys[lits[j]]],
         values |-> [j \in 1..Len(n.keys) |-> Get(h, fieldOf(n.keys[j]), perm)]
                    \o [j \in 1..Len(lits) |-> Get(h, n.kids[lits[j]], perm)]]

String(h, q, perm) ==
    LET n == h[q]
    IN  CASE n.kind \in {"all", "literal"} -> n.value
          [] n.kind \in {"ptr", "pipeline", "recurse"} ->
                String(h, n.inner, perm)
          [] n.kind \in {"ident", "index"} ->
                IF n.next # 0 THEN String(h, n.next, perm)
                ELSE IF Len(n.values) = 1 THEN n.values[1]
                ELSE writeArray(n.values)
          [] n.kind = "any" -> anyString(h, q, perm)
          [] n.kind = "array" ->
                writeArray(Flatten([i \in 1..Len(n.kids) |->
                                       Get(h, n.kids[i], perm)]))
          [] n.kind = "object" ->
                LET c == objectColumns(h, q, perm)
                IN  writeObject(c.keys, Combine(c.values))

Get(h, q, perm) ==
    LET n == h[q]
    IN  CASE n.kind \in {"all", "literal"} -> <<n.value>>
          [] n.kind \in {"ptr", "pipeline", "recurse"} -> Get(h, n.inner, perm)
          [] n.kind \in {"ident", "index"} ->
                IF n.next # 0 THEN Get(h, n.next, perm) ELSE n.values
          [] n.kind \in {"any", "array"} ->
                [i \in 1..Len(n.kids) |-> writeArray(Get(h, n.kids[i], perm))]
          [] n.kind = "object" ->
                LET c == objectColumns(h, q, perm)
                    p == Combine(c.values)
                IN  [i \in 1..Len(p) |-> writeObject(c.keys, <<p[i]>>)]

\* ------------------------------------------------------ the evaluator

DigitOf(d) == <<"0", "1", "2", "3", "4", "5", "6", "7", "8", "9">>[d + 1]

RECURSIVE Itoa(_)
\* strconv.Itoa of a natural number
Itoa(i) == IF i < 10 THEN <<DigitOf(i)>>
           ELSE Append(Itoa(i \div 10), DigitOf(i % 10))

(* The evaluator is the recursive descent of reader.Read.  Its call stack   *)
(* is `stack`, the innermost call last; a frame names the function and the  *)
(* point reached in it (op), the query it was called with (q) and its       *)
(* locals (str: the key or the span, i: the loop index, err: the error a    *)
(* deferred call will let through).  `ret` is the error the call that       *)
(* returned last has returned.  `rstack` holds the readers: execute makes   *)
(* a new one for each pipeline stage.                                       *)
VARIABLES heap, root, rstack, stack, ret, status, out, dropped, doc, query,
          script, saved, parser, peer, writer

\* the session: the document and the query text of the running Execute, the
\* calls still to make, the outcomes of the calls made, the Parser of a
\* running Parse, and the evaluation of another goroutine, not running now
session == <<doc, query, script, saved, parser, peer, writer>>

vars == <<heap, root, rstack, stack, ret, status, out, dropped, session>>

Frame(op, q) == [op |-> op, q |-> q, str |-> <<>>, i |-> 0, err |-> ErrNil]

FrameStr(op, q, str) == [Frame(op, q) EXCEPT !.str = str]

FrameIdx(op, q, i) == [Frame(op, q) EXCEPT !.i = i]

Top == stack[Len(stack)]

Rd == rstack[Len(rstack)]

Running(op) == status = "run" /\ stack # <<>> /\ Top.op = op

Pop(s) == SubSeq(s, 1, Len(s) - 1)

\* the stack with its top frame replaced by the frames fs
Replace(fs) == Pop(stack) \o fs

SetRd(r) == [rstack EXCEPT ![Len(rstack)] = r]

\* reader.Read, up to its call of traverse
ReadStart ==
    /\ Running("Read")
    /\ rstack' = SetRd(IF keepAll(heap, Top.q) THEN wrap(Rd) ELSE Rd)
    /\ stack' = Replace(<<Frame("ReadEnd", Top.q), Frame("traverse", Top.q)>>)
    /\ UNCHANGED <<heap, root, ret, status, out, dropped, session>>

\* reader.Read, from the return of traverse: the check for the end of the
\* input, and the deferred update of an identity query
ReadEnd ==
    /\ Running("ReadEnd")
    /\ LET x == read(Rd)
           r1 == IF ret # ErrNil THEN Rd ELSE x.rd
           e == IF ret # ErrNil THEN ret
                ELSE IF x.err = ErrNil THEN ErrMalformed ELSE ErrNil
           u == unwrap(r1)
       IN  IF keepAll(heap, Top.q)
           THEN /\ rstack' = SetRd(u.rd)
                /\ stack' = Replace(<<[Frame("updated", Top.q) EXCEPT !.err = e],
                                      FrameStr("update", Top.q, u.str)>>)
                /\ ret' = ret
           ELSE /\ rstack' = SetRd(r1)
                /\ stack' = Pop(stack)
                /\ ret' = e
    /\ UNCHANGED <<heap, root, status, out, dropped, session>>

\* reader.traverse: a scalar is consumed whole, an array or an object is
\* entered
Traverse ==
    /\ Running("traverse")
    /\ LET x == read(Rd)
           scalar == IF jsonQuote(x.c) THEN literal(x.rd)
                     ELSE IF jsonIdent(x.c) THEN identifier(x.rd)
                     ELSE number(x.rd)
       IN  IF x.err # ErrNil
           THEN /\ rstack' = SetRd(x.rd)
                /\ stack' = Pop(stack)
                /\ ret' = x.err
           ELSE IF jsonQuote(x.c) \/ jsonIdent(x.c) \/ jsonDigit(x.c)
           THEN /\ rstack' = SetRd(scalar.rd)
                /\ stack' = Pop(stack)
                /\ ret' = scalar.err
           ELSE IF jsonArray(x.c)
           THEN /\ rstack' = SetRd(x.rd)
                /\ stack' = Replace(<<FrameIdx("array", Top.q, 0)>>)
                /\ ret' = ret
           ELSE IF jsonObject(x.c)
           THEN /\ rstack' = SetRd(x.rd)
                /\ stack' = Replace(<<Frame("object", Top.q)>>)
                /\ ret' = ret
           ELSE /\ rstack' = SetRd(x.rd)
                /\ stack' = Pop(stack)
                /\ ret' = ErrMalformed
    /\ UNCHANGED <<heap, root, status, out, dropped, session>>

\* reader.object: the key of the next member, then filter on its value
ObjectKey ==
    /\ Running("object")
    /\ LET x == key(Rd)
       IN  /\ rstack' = SetRd(x.rd)
           /\ IF x.err # ErrNil
              THEN stack' = Pop(stack) /\ ret' = x.err
              ELSE /\ stack' = Replace(<<Frame("objectEnd", Top.q),
                                         FrameStr("filter", Top.q, x.val)>>)
                   /\ ret' = ret
    /\ UNCHANGED <<heap, root, status, out, dropped, session>>

\* reader.object: from the return of filter, endObject
ObjectEnd ==
    /\ Running("objectEnd")
    /\ LET x == endObject(Rd)
       IN  IF ret # ErrNil
           THEN stack' = Pop(stack) /\ UNCHANGED <<rstack, ret>>
           ELSE /\ rstack' = SetRd(x.rd)
                /\ IF x.err = ErrNil
                   THEN stack' = Replace(<<Frame("object", Top.q)>>) /\ ret' = ret
                   ELSE /\ stack' = Pop(stack)
                        /\ ret' = IF x.err = ErrDone THEN ErrNil ELSE x.err
    /\ UNCHANGED <<heap, root, status, out, dropped, session>>

\* ArrayElem with the elements counted from one
ArrayElemFromOne ==
    /\ Running("array")
    /\ stack' = Replace(<<FrameIdx("arrayEnd", Top.q, Top.i),
                          FrameStr("filter", Top.q, Itoa(Top.i + 1))>>)
    /\ UNCHANGED <<heap, root, rstack, ret, status, out, dropped, session>>

\* reader.array: filter on the element i
ArrayElem ==
    /\ Running("array")
    /\ stack' = Replace(<<FrameIdx("arrayEnd", Top.q, Top.i),
                          FrameStr("filter", Top.q, Itoa(Top.i))>>)
    /\ UNCHANGED <<heap, root, rstack, ret, status, out, dropped, session>>

\* reader.array: from the return of filter, endArray and i++
ArrayEnd ==
    /\ Running("arrayEnd")
    /\ LET x == endArray(Rd)
       IN  IF ret # ErrNil
           THEN stack' = Pop(stack) /\ UNCHANGED <<rstack, ret>>
           ELSE /\ rstack' = SetRd(x.rd)
                /\ IF x.err = ErrNil
                   THEN /\ stack' = Replace(<<FrameIdx("array", Top.q, Top.i + 1)>>)
                        /\ ret' = ret
                   ELSE /\ stack' = Pop(stack)
                        /\ ret' = IF x.err = ErrDone THEN ErrNil ELSE x.err
    /\ UNCHANGED <<heap, root, status, out, dropped, session>>

\* reader.filter, up to its call of traverse; perm is the order in which
\* Go iterates the maps met by q.Next
FilterOn(perm) ==
    /\ Running("filter")
    /\ IF Top.q = 0
       THEN /\ stack' = Replace(<<Frame("traverse", 0)>>)
            /\ UNCHANGED <<heap, rstack>>
       ELSE LET x == NextOf(heap, Top.q, Top.str, perm)
            IN  /\ heap' = x.h
                /\ IF x.err = ErrNil /\ ~keepAll(heap, Top.q) /\ x.next = 0
                   THEN /\ rstack' = SetRd(wrap(Rd))
                        /\ stack' = Replace(<<Frame("filterEnd", Top.q),
                                              Frame("traverse", 0)>>)
                   ELSE /\ rstack' = rstack
                        /\ stack' = Replace(<<Frame("traverse", x.next)>>)
    /\ UNCHANGED <<root, ret, status, out, dropped, session>>

\* reader.filter's deferred reader.update: unwrap, then q.update(str); the
\* error of update is dropped, filter returns what traverse returned
FilterEnd ==
    /\ Running("filterEnd")
    /\ LET u == unwrap(Rd)
       IN  /\ rstack' = SetRd(u.rd)
           /\ stack' = Replace(<<[Frame("updated", Top.q) EXCEPT !.err = ret],
                                 FrameStr("update", Top.q, u.str)>>)
    /\ UNCHANGED <<heap, root, ret, status, out, dropped, session>>

\* the return of a function that deferred reader.update
Updated ==
    /\ Running("updated")
    /\ stack' = Pop(stack)
    /\ ret' = Top.err
    /\ dropped' = (dropped \/ ret # ErrNil)
    /\ UNCHANGED <<heap, root, rstack, status, out, session>>

\* q.update(str), by the kind of q
Update ==
    /\ Running("update")
    /\ LET n == heap[Top.q]
           fwd(q) == Replace(<<FrameStr("update", q, Top.str)>>)
       IN  CASE n.kind = "all" ->
                  /\ heap' = [heap EXCEPT ![Top.q].value = Top.str]
                  /\ stack' = Pop(stack) /\ ret' = ErrNil
             [] n.kind \in {"ident", "index"} ->
                  /\ heap' = [heap EXCEPT ![Top.q].values = Append(@, Top.str)]
                  /\ stack' = Pop(stack) /\ ret' = ErrNil
             [] n.kind = "literal" ->
                  /\ stack' = Pop(stack) /\ ret' = ErrLiteral
                  /\ heap' = heap
             [] n.kind \in {"ptr", "recurse"} ->
                  stack' = fwd(n.inner) /\ UNCHANGED <<heap, ret>>
             [] n.kind \in {"any", "array"} ->
                  IF n.last = 0
                  THEN stack' = Pop(stack) /\ ret' = ErrNoQuery /\ heap' = heap
                  ELSE /\ stack' = Replace(<<Frame("reset", Top.q),
                                             FrameStr("update", n.last, Top.str)>>)
                       /\ UNCHANGED <<heap, ret>>
             [] n.kind = "object" ->
                  IF Len(n.keys) = 0
                  THEN stack' = Pop(stack) /\ ret' = ErrNoQuery /\ heap' = heap
                  ELSE LET k == n.keys[Len(n.keys)]
                           i == CHOOSE i \in 1..Len(n.fkeys) : n.fkeys[i] = k
                       IN  stack' = fwd(n.kids[i]) /\ UNCHANGED <<heap, ret>>
             [] n.kind = "pipeline" ->
                  /\ stack' = Replace(<<[FrameStr("pipeline", Top.q, Top.str)
                                            EXCEPT !.i = 1]>>)
                  /\ UNCHANGED <<heap, ret>>
    /\ UNCHANGED <<root, rstack, status, out, dropped, session>>

\* the deferred reset of any.update and array.update
Reset ==
    /\ Running("reset")
    /\ heap' = [heap EXCEPT ![Top.q].last = 0]
    /\ stack' = Pop(stack)
    /\ UNCHANGED <<root, rstack, ret, status, out, dropped, session>>

\* pipeline.update: the stage i is cleared and executed on str, or, the
\* stages done, the head is updated
PipeRun ==
    /\ Running("pipeline")
    /\ LET n == heap[Top.q]
       IN  IF Top.i > Len(n.kids)
           THEN /\ stack' = Replace(<<FrameStr("update", n.inner, Top.str)>>)
                /\ UNCHANGED <<heap, rstack>>
           ELSE /\ heap' = clear(heap, n.kids[Top.i])
                /\ rstack' = Append(rstack, prepare(Top.str))
                /\ stack' = Replace(<<[Top EXCEPT !.op = "pipelineRet"],
                                      Frame("Read", n.kids[Top.i])>>)
    /\ UNCHANGED <<root, ret, status, out, dropped, session>>

\* PipeRet with the rendered stage assigned to a variable of the loop body:
\* the next stage and the head get the span the pipeline was called with
PipeRetShadowed(perm) ==
    /\ Running("pipelineRet")
    /\ rstack' = Pop(rstack)
    /\ IF ret # ErrNil
       THEN stack' = Pop(stack)
       ELSE stack' = Replace(<<[FrameStr("pipeline", Top.q, Top.str)
                                   EXCEPT !.i = Top.i + 1]>>)
    /\ UNCHANGED <<heap, root, ret, status, out, dropped, session>>

\* PipeRet with the loop index left where it is
PipeRetStuck(perm) ==
    /\ Running("pipelineRet")
    /\ rstack' = Pop(rstack)
    /\ LET n == heap[Top.q]
       IN  IF ret # ErrNil
           THEN stack' = Pop(stack)
           ELSE stack' = Replace(<<[FrameStr("pipeline", Top.q,
                                             String(heap, n.kids[Top.i], perm))
                                       EXCEPT !.i = Top.i]>>)
    /\ UNCHANGED <<heap, root, ret, status, out, dropped, session>>

\* pipeline.update, from the return of execute: the error ends the loop,
\* else the rendered stage is the input of the next one
PipeRet(perm) ==
    /\ Running("pipelineRet")
    /\ rstack' = Pop(rstack)
    /\ LET n == heap[Top.q]
       IN  IF ret # ErrNil
           THEN stack' = Pop(stack)
           ELSE stack' = Replace(<<[FrameStr("pipeline", Top.q,
                                             String(heap, n.kids[Top.i], perm))
                                       EXCEPT !.i = Top.i + 1]>>)
    /\ UNCHANGED <<heap, root, ret, status, out, dropped, session>>

\* Execute, from the return of execute: the error, or q.String()
Finish(perm) ==
    /\ status = "run" /\ stack = <<>>
    /\ IF ret # ErrNil
       THEN status' = "err" /\ out' = <<>>
       ELSE status' = "ok" /\ out' = String(heap, root, perm)
    /\ UNCHANGED <<heap, root, rstack, stack, ret, dropped, session>>

\* ------------------------------------------------------------ documents

(* A JSON value: a scalar with its source text, an array of values, or an   *)
(* object, a list of keys with the list of their values.                    *)
Scalar(s) == [t |-> "scalar", s |-> s, k |-> <<>>, e |-> <<>>]

Arr(e) == [t |-> "array", s |-> <<>>, k |-> <<>>, e |-> e]

Obj(k, e) == [t |-> "object", s |-> <<>>, k |-> k, e |-> e]

RECURSIVE JoinWith(_, _)
JoinWith(ss, sep) ==
    IF ss = <<>> THEN <<>>
    ELSE IF Len(ss) = 1 THEN ss[1]
    ELSE ss[1] \o sep \o JoinWith(Tail(ss), sep)

RECURSIVE Ser(_, _, _)
\* the text of the value v, with the blanks sp after each ',' and ':' and
\* the blanks pad before every token
Ser(v, sp, pad) ==
    CASE v.t = "scalar" -> pad \o v.s
      [] v.t = "array" ->
            pad \o <<"[">>
            \o JoinWith([i \in 1..Len(v.e) |-> Ser(v.e[i], sp, pad)],
                        pad \o <<",">> \o sp)
            \o pad \o <<"]">>
      [] v.t = "object" ->
            pad \o <<"{">>
            \o JoinWith([i \in 1..Len(v.e) |->
                            pad \o <<"\"">> \o v.k[i] \o <<"\"">> \o pad
                            \o <<":">> \o sp \o Ser(v.e[i], sp, pad)],
                        pad \o <<",">> \o sp)
            \o pad \o <<"}">>

\* the canonical compact form: no blank outside a string, one space after
\* each ',' and ':'
Canon(v) == Ser(v, <<" ">>, <<>>)

Compact(v) == Ser(v, <<>>, <<>>)

Loose(v) == Ser(v, <<" ", "\n">>, <<" ">>) \o <<"\t">>

\* -------------------------------------------------------------- queries

A == <<"a">>

B == <<"b">>

X == <<"x">>

Y == <<"y">>

(* The trees Parse returns for the query texts of the model: the heap each  *)
(* tree is made of and its root.                                            *)
Tree(text, root_, heap_) == [text |-> text, root |-> root_, heap |-> heap_]

Queries == <<
    Tree(".", 1, <<All>>),
    Tree(".a", 1, <<IdentNext(A, 0)>>),
    Tree(".b", 1, <<IdentNext(B, 0)>>),
    Tree(".a.a", 1, <<IdentNext(A, 2), IdentNext(A, 0)>>),
    Tree(".a.b", 1, <<IdentNext(A, 2), IdentNext(B, 0)>>),
    Tree(".[]", 1, <<IndexNext(<<>>, 0)>>),
    Tree(".[0]", 1, <<IndexNext(<< <<"0">> >>, 0)>>),
    Tree(".a[]", 1, <<IdentNext(A, 2), IndexNext(<<>>, 0)>>),
    Tree(".a,.b", 3, <<IdentNext(A, 0), IdentNext(B, 0), AnyQ(<<1, 2>>)>>),
    Tree("[.a, .b]", 3, <<IdentNext(A, 0), IdentNext(B, 0), Array(<<1, 2>>)>>),
    Tree("[.a.a, .a.b]", 5,
         <<IdentNext(A, 2), IdentNext(A, 0), IdentNext(A, 4), IdentNext(B, 0),
           Array(<<1, 3>>)>>),
    Tree("{x: .a, y: .b}", 3,
         <<IdentNext(A, 0), IdentNext(B, 0), Object(<<X, Y>>, <<1, 2>>)>>),
    Tree(".a | .b", 3,
         <<IdentNext(A, 0), IdentNext(B, 0), PipeLine(1, <<2>>)>>),
    Tree(".[] | .a", 3,
         <<IndexNext(<<>>, 0), IdentNext(A, 0), PipeLine(1, <<2>>)>>),
    Tree(".a | $", 3, <<IdentNext(A, 0), Pointer(1), PipeLine(1, <<2>>)>>),
    Tree("[.a] | $", 4,
         <<IdentNext(A, 0), Array(<<1>>), Pointer(2), PipeLine(2, <<3>>)>>),
    Tree("..a", 2, <<IdentNext(A, 0), Recurse(1)>>),
    Tree("{x: .a, n: 1}", 3,
         <<IdentNext(A, 0), Value(<<"1">>), Object(<<X, <<"n">> >>, <<1, 2>>)>>),
    Tree(".a | .b | .a", 4,
         <<IdentNext(A, 0), IdentNext(B, 0), IdentNext(A, 0),
           PipeLine(1, <<2, 3>>)>>),
    Tree(".a | .a.b | .a", 6,
         <<IdentNext(A, 0), IdentNext(A, 5), IdentNext(B, 0), IdentNext(A, 0),
           PipeLine(3, <<4>>), PipeLine(1, <<2>>)>>),
    Tree(".[1,0]", 1, <<IndexNext(<< <<"1">>, <<"0">> >>, 0)>>),
    Tree("[.a.b, .b] | $", 6,
         <<IdentNext(A, 2), IdentNext(B, 0), IdentNext(B, 0), Array(<<1, 3>>),
           Pointer(4), PipeLine(4, <<5>>)>>),
    Tree("{x: .a, y: .a}", 3,
         <<IdentNext(A, 0), IdentNext(A, 0), Object(<<X, Y>>, <<1, 2>>)>>),
    Tree("{x: 1, y: 2}", 3,
         <<Value(<<"1">>), Value(<<"2">>), Object(<<X, Y>>, <<1, 2>>)>>),
    Tree("[x, \"b\"]", 3, <<Value(X), Value(B), Array(<<1, 2>>)>>)
>>

\* the tree of the query text
Q(text) == Queries[CHOOSE i \in 1..Len(Queries) : Queries[i].text = text]

\* the node n of a tree appended to a heap of k nodes
Shift(n, k) ==
    LET mv(id) == IF id = 0 THEN 0 ELSE id + k
    IN  [n EXCEPT !.next = mv(@), !.inner = mv(@), !.last = mv(@),
                  !.kids = [i \in 1..Len(@) |-> mv(@[i])]]

RECURSIVE Leaf(_, _)
\* the last node of a path
Leaf(h, q) == IF h[q].next = 0 THEN q ELSE Leaf(h, h[q].next)

(* The tree Parse returns for "t1 | t2", t1 a path and t2 without '|', '$' *)
(* or ',': parsePipe wraps the node parsed last, the last of the path, in   *)
(* a pipeline whose only stage is t2, or has no stage when t2 is ".".       *)
ParsePipe(t1, t2) ==
    LET l == Leaf(t1.heap, t1.root)
        n1 == Len(t1.heap)
        stage == IF keepAll(t2.heap, t2.root) THEN <<>>
                 ELSE [i \in 1..Len(t2.heap) |-> Shift(t2.heap[i], n1)]
        p == n1 + Len(stage) + 1
        head == [i \in 1..n1 |->
                    IF t1.heap[i].next = l THEN [t1.heap[i] EXCEPT !.next = p]
                    ELSE t1.heap[i]]
    IN  Tree(t1.text \o " | " \o t2.text,
             IF l = t1.root THEN p ELSE t1.root,
             head \o stage
             \o <<PipeLine(l, IF stage = <<>> THEN <<>> ELSE <<t2.root + n1>>)>>)

\* ------------------------------------------------------- the scanner

\* the token types; Token0 is the Type of the zero Token, which Scan
\* returns for a rune that starts no token
Eof == "eof"
Literal == "literal"
Number == "number"
Link == "link"
Dot == "dot"
Depth == "depth"
Comma == "comma"
Lparen == "lparen"
Rparen == "rparen"
Lsquare == "lsquare"
Rsquare == "rsquare"
Lcurly == "lcurly"
Rcurly == "rcurly"
Colon == "colon"
Pipe == "pipe"
Invalid == "invalid"
Token0 == "zero"

Token(type, lit) == [Type |-> type, Literal |-> lit]

\* utf8.RuneError, which utf8.DecodeRune returns for the empty slice
RuneError == "RuneError"

isLower(r) == r \in Letters

isUpper(r) ==
    r \in {"A", "B", "C", "D", "E", "F", "G", "H", "I", "J", "K", "L", "M",
           "N", "O", "P", "Q", "R", "S", "T", "U", "V", "W", "X", "Y", "Z"}

isDigit(r) == r \in Digits

isLetter(r) == isLower(r) \/ isUpper(r)

isAlpha(r) == isLower(r) \/ isUpper(r) \/ isDigit(r) \/ r = "_"

isBlank(r) == r \in {" ", "\t"}

isQuote(r) == r \in {"'", "\""}

isGroup(r) == r \in {"(", ")", "[", "]", "{", "}"}

isPunct(r) == r \in {".", ",", ":", "|", "$"}

isDelim(r) == isGroup(r) \/ isPunct(r)

\* Scan (function): the Scanner of a text; curr and next are offsets from 0
NewScanner(str) == [input |-> str, curr |-> 0, next |-> 0, char |-> NUL]

\* utf8.DecodeRune(s.input[i:]): the rune and its size
DecodeRune(s, i) ==
    IF i < Len(s.input) THEN [c |-> s.input[i + 1], z |-> 1]
    ELSE [c |-> RuneError, z |-> 0]

scanRead(s) ==
    IF s.curr >= Len(s.input) THEN [s EXCEPT !.char = NUL]
    ELSE LET on(d) == [s EXCEPT !.curr = s.next, !.next = s.next + d.z,
                                 !.char = d.c]
         IN  on(DecodeRune(s, s.next))

scanUnread(s) ==
    LET on(d) == [s EXCEPT !.char = d.c, !.next = s.curr, !.curr = s.curr - d.z]
    IN  on(DecodeRune(s, s.curr))

scanPeek(s) == DecodeRune(s, s.next).c

scanDone(s) == s.curr >= Len(s.input)

\* string(s.input[pos:s.curr])
scanText(s, pos) == SubSeq(s.input, pos + 1, s.curr)

RECURSIVE scanAlphas(_), scanDigits(_), scanBlanks(_), scanToQuote(_, _)
\* for !s.done() && isAlpha(s.char) { s.read() }, and the like
scanAlphas(s) ==
    IF ~scanDone(s) /\ isAlpha(s.char) THEN scanAlphas(scanRead(s)) ELSE s

scanDigits(s) ==
    IF ~scanDone(s) /\ isDigit(s.char) THEN scanDigits(scanRead(s)) ELSE s

scanBlanks(s) ==
    IF ~scanDone(s) /\ isBlank(s.char) THEN scanBlanks(scanRead(s)) ELSE s

scanToQuote(s, quote) ==
    IF ~scanDone(s) /\ s.char # quote THEN scanToQuote(scanRead(s), quote)
    ELSE s

ScanRet(s, tok) == [s |-> s, tok |-> tok]

scanIdent(s) ==
    LET on(e) == ScanRet(scanUnread(e), Token(Literal, scanText(e, s.curr)))
    IN  on(scanAlphas(s))

scanQuote(s) ==
    LET on(pos, e) ==
            ScanRet(e, Token(IF e.char # s.char THEN Invalid ELSE Literal,
                             scanText(e, pos)))
        from(b) == on(b.curr, scanToQuote(b, s.char))
    IN  from(scanRead(s))

scanNumber(s) ==
    LET on(e) == ScanRet(scanUnread(e), Token(Number, scanText(e, s.curr)))
    IN  on(scanDigits(s))

scanDelim(s) ==
    CASE s.char = "$" -> ScanRet(s, Token(Link, <<>>))
      [] s.char = "{" -> ScanRet(s, Token(Lcurly, <<>>))
      [] s.char = "}" -> ScanRet(s, Token(Rcurly, <<>>))
      [] s.char = ":" -> ScanRet(s, Token(Colon, <<>>))
      [] s.char = "," -> ScanRet(s, Token(Comma, <<>>))
      [] s.char = "." ->
            IF scanPeek(s) = s.char THEN ScanRet(scanRead(s), Token(Depth, <<>>))
            ELSE ScanRet(s, Token(Dot, <<>>))
      [] s.char = "(" -> ScanRet(s, Token(Lparen, <<>>))
      [] s.char = ")" -> ScanRet(s, Token(Rparen, <<>>))
      [] s.char = "[" -> ScanRet(s, Token(Lsquare, <<>>))
      [] s.char = "]" -> ScanRet(s, Token(Rsquare, <<>>))
      [] s.char = "|" -> ScanRet(s, Token(Pipe, <<>>))
      [] OTHER -> ScanRet(s, Token(Invalid, <<>>))

skipBlank(s) == scanUnread(scanBlanks(s))

RECURSIVE Scan(_)
\* Scanner.Scan
Scan(s0) ==
    LET on(s) ==
            IF scanDone(s) THEN ScanRet(s, Token(Eof, <<>>))
            ELSE CASE isLetter(s.char) -> scanIdent(s)
                   [] isQuote(s.char) -> scanQuote(s)
                   [] isDigit(s.char) -> scanNumber(s)
                   [] isDelim(s.char) -> scanDelim(s)
                   [] isBlank(s.char) -> Scan(skipBlank(s))
                   [] OTHER -> ScanRet(s, Token(Token0, <<>>))
    IN  on(scanRead(s0))

\* -------------------------------------------------------- the parser

ErrParse == "parse error"         \* Parser.parseError

(* The Parser: its scanner, the tokens curr and peek, depth, the handles    *)
(* of the queries parsed at depth one (parsed), and the heap of the nodes   *)
(* made so far.  A parse function returns the parser, the handle of the    *)
(* query (0 for nil) and the error.                                         *)
NewParser(str) ==
    [scan |-> NewScanner(str), curr |-> Token(Token0, <<>>),
     peek |-> Token(Token0, <<>>), depth |-> 0, parsed |-> <<>>,
     heap |-> <<>>]

PRet(p, q, err) == [p |-> p, q |-> q, err |-> err]

\* Parser.next
pnext(p) ==
    LET on(r) == [p EXCEPT !.curr = p.peek, !.peek = r.tok, !.scan = r.s]
    IN  on(Scan(p.scan))

is(p, kind) == p.curr.Type = kind

peekIs(p, kind) == p.peek.Type = kind

done(p) == is(p, Eof)

enter(p) == [p EXCEPT !.depth = @ + 1]

\* the deferred Parser.leave, on the result of a parse function
leave(r) == [r EXCEPT !.p.depth = @ - 1]

push(p, q) == IF p.depth > 1 THEN p ELSE [p EXCEPT !.parsed = Append(@, q)]

reset(p) == [p EXCEPT !.depth = 0, !.parsed = <<>>]

\* the parser with the node n made, and the handle of n
alloc(p, n) == PRet([p EXCEPT !.heap = Append(@, n)], Len(p.heap) + 1, ErrNil)

\* strconv.Atoi fails on a run of digits only when it is out of range:
\* the number has more digits than the largest int has
AtoiFails(lit) == Len(lit) > 19

\* obj.fields[k] = q
setField(n, k, q) ==
    IF InSeq(k, n.fkeys)
    THEN [n EXCEPT !.kids = [i \in 1..Len(@) |->
                                IF n.fkeys[i] = k THEN q ELSE @[i]]]
    ELSE [n EXCEPT !.fkeys = Append(@, k), !.kids = Append(@, q)]

(* The parse functions call one another, on the parser p and (parsePipe)    *)
(* on the query q: invoke(fn, p, q) is the call of the one named fn.       *)
RECURSIVE invoke(_, _, _), indexList(_, _), pipeStages(_, _),
          arrayList(_, _), objectFields(_, _)

\* parseLink naming the node registered last
parseLinkLast(p0) ==
    LET skip(p) == IF is(p, Number) THEN pnext(p) ELSE p
        link(p) == IF Len(p.parsed) = 0 THEN PRet(p, 0, ErrParse)
                   ELSE alloc(p, Pointer(p.parsed[Len(p.parsed)]))
    IN  link(skip(pnext(p0)))

parseLink(p0) ==
    LET skip(p) == IF is(p, Number) THEN pnext(p) ELSE p
        link(p) == IF Len(p.parsed) = 0 THEN PRet(p, 0, ErrParse)
                   ELSE alloc(p, Pointer(p.parsed[1]))
    IN  link(skip(pnext(p0)))

parseQuery(p) ==
    LET recurse(r) == IF r.err = ErrNil THEN alloc(r.p, Recurse(r.q)) ELSE r
        piped(r) == IF is(r.p, Pipe) /\ r.err = ErrNil
                    THEN invoke("parsePipe", r.p, r.q) ELSE r
        checked(r) ==
            IF r.err # ErrNil THEN PRet(r.p, 0, r.err)
            ELSE IF r.p.curr.Type \in {Eof, Comma, Pipe, Rsquare, Rcurly} THEN r
            ELSE PRet(r.p, 0, ErrParse)
    IN  CASE is(p, Depth) -> checked(piped(recurse(invoke("parseDot", p, 0))))
          [] is(p, Dot) -> checked(piped(invoke("parseDot", p, 0)))
          [] is(p, Lsquare) -> checked(piped(invoke("parseArray", p, 0)))
          [] is(p, Lcurly) -> checked(piped(invoke("parseObject", p, 0)))
          [] is(p, Link) -> checked(piped(parseLink(p)))
          [] OTHER -> PRet(p, 0, ErrParse)

parseDot(p0) ==
    LET on(p) ==
            CASE is(p, Pipe) -> invoke("parseQuery", pnext(p), 0)
              [] is(p, Eof) -> alloc(p, All)
              [] is(p, Literal) -> invoke("parseIdent", p, 0)
              [] is(p, Lsquare) -> invoke("parseIndex", p, 0)
              [] OTHER -> PRet(p, 0, ErrParse)
    IN  on(pnext(p0))

\* the node id with its next set to the query a parse function returned
linked(id, r) ==
    PRet([r.p EXCEPT !.heap = [@ EXCEPT ![id].next = r.q]], id, r.err)

parseIdent(p0) ==
    LET tail(p, id) ==
            IF (is(p, Dot) \/ is(p, Depth)) /\ peekIs(p, Eof)
            THEN PRet(p, 0, ErrParse)
            ELSE IF is(p, Dot) \/ is(p, Depth)
            THEN linked(id, invoke("parseQuery", p, 0))
            ELSE IF is(p, Lsquare) THEN linked(id, invoke("parseIndex", p, 0))
            ELSE PRet(p, id, ErrNil)
        body(a) == tail(push(pnext(a.p), a.q), a.q)
    IN  leave(body(alloc(enter(p0), IdentNext(p0.curr.Literal, 0))))

\* the loop of parseIndex: the parser, the list, the error
indexList(p, list) ==
    IF done(p) \/ is(p, Rsquare) THEN [p |-> p, list |-> list, err |-> ErrNil]
    ELSE IF ~is(p, Number) \/ AtoiFails(p.curr.Literal)
    THEN [p |-> p, list |-> list, err |-> ErrParse]
    ELSE LET comma(m) ==
                 IF is(m, Rsquare) THEN [p |-> m, list |-> list, err |-> ErrParse]
                 ELSE indexList(m, Append(list, p.curr.Literal))
             on(n) ==
                 CASE is(n, Comma) -> comma(pnext(n))
                   [] is(n, Rsquare) ->
                        indexList(n, Append(list, p.curr.Literal))
                   [] OTHER -> [p |-> n, list |-> list, err |-> ErrParse]
         IN  on(pnext(p))

parseIndex(p0) ==
    LET tail(p, id) ==
            IF (is(p, Dot) \/ is(p, Depth)) /\ peekIs(p, Eof)
            THEN PRet(p, 0, ErrParse)
            ELSE IF is(p, Dot) \/ is(p, Depth)
            THEN linked(id, invoke("parseQuery", p, 0))
            ELSE IF is(p, Pipe) THEN invoke("parsePipe", p, id)
            ELSE PRet(p, id, ErrNil)
        made(a) == tail(push(a.p, a.q), a.q)
        body(l) ==
            IF l.err # ErrNil \/ ~is(l.p, Rsquare) THEN PRet(l.p, 0, ErrParse)
            ELSE made(alloc(pnext(l.p), IndexNext(l.list, 0)))
    IN  leave(body(indexList(pnext(enter(p0)), <<>>)))

\* the loop of parsePipe: the parser, the stages, the error
pipeStages(p, stages) ==
    IF done(p) \/ is(p, Rcurly) \/ is(p, Rsquare) \/ is(p, Comma)
    THEN [p |-> p, list |-> stages, err |-> ErrNil]
    ELSE LET piped(m, qs) ==
                 IF m.curr.Type \in {Eof, Rcurly, Rsquare, Comma}
                 THEN [p |-> m, list |-> qs, err |-> ErrParse]
                 ELSE pipeStages(m, qs)
             after(n, qs) ==
                 CASE is(n, Pipe) -> piped(pnext(n), qs)
                   [] n.curr.Type \in {Eof, Comma, Rcurly, Rsquare} ->
                        pipeStages(n, qs)
                   [] OTHER -> [p |-> n, list |-> qs, err |-> ErrParse]
             on(r) ==
                 IF r.err # ErrNil THEN [p |-> r.p, list |-> stages, err |-> r.err]
                 ELSE IF keepAll(r.p.heap, r.q) /\ is(r.p, Eof)
                 THEN pipeStages(r.p, stages)
                 ELSE after(r.p, Append(stages, r.q))
         IN  CASE is(p, Lsquare) -> on(invoke("parseArray", p, 0))
               [] is(p, Lcurly) -> on(invoke("parseObject", p, 0))
               [] is(p, Link) -> on(parseLink(p))
               [] is(p, Depth) -> on(invoke("parseQuery", p, 0))
               [] OTHER -> on(invoke("parseDot", p, 0))

parsePipe(p0, q) ==
    LET on(l) == IF l.err # ErrNil THEN PRet(l.p, 0, l.err)
                 ELSE alloc(l.p, PipeLine(q, l.list))
    IN  on(pipeStages(pnext(p0), <<>>))

\* a literal or a number of a constructor is a Value, anything else a query
valueOrQuery(p) ==
    IF is(p, Literal) \/ is(p, Number)
    THEN alloc(pnext(p), Value(p.curr.Literal))
    ELSE invoke("parseQuery", p, 0)

\* the loop of parseArray: the parser, the list, the error
arrayList(p, list) ==
    IF done(p) \/ is(p, Rsquare) THEN [p |-> p, list |-> list, err |-> ErrNil]
    ELSE LET comma(m, q) ==
                 IF is(m, Rsquare) THEN [p |-> m, list |-> list, err |-> ErrParse]
                 ELSE arrayList(m, Append(list, q))
             on(r) ==
                 IF r.err # ErrNil THEN [p |-> r.p, list |-> list, err |-> r.err]
                 ELSE CASE is(r.p, Comma) -> comma(pnext(r.p), r.q)
                        [] is(r.p, Rsquare) -> arrayList(r.p, Append(list, r.q))
                        [] OTHER -> [p |-> r.p, list |-> list, err |-> ErrParse]
         IN  on(valueOrQuery(p))

parseArray(p0) ==
    LET made(a) == PRet(push(a.p, a.q), a.q, ErrNil)
        body(l) ==
            IF l.err # ErrNil \/ ~is(l.p, Rsquare) THEN PRet(l.p, 0, ErrParse)
            ELSE made(alloc(pnext(l.p), Array(l.list)))
    IN  leave(body(arrayList(pnext(enter(p0)), <<>>)))

\* the loop of parseObject: the parser, the object so far, the error
objectFields(p, obj) ==
    IF done(p) \/ is(p, Rcurly) THEN [p |-> p, list |-> obj, err |-> ErrNil]
    ELSE LET fail(n) == [p |-> n, list |-> obj, err |-> ErrParse]
             comma(m, ident, q) ==
                 IF is(m, Rcurly) THEN fail(m)
                 ELSE objectFields(m, setField(obj, ident, q))
             on(ident, r) ==
                 IF r.err # ErrNil THEN [p |-> r.p, list |-> obj, err |-> r.err]
                 ELSE CASE is(r.p, Comma) -> comma(pnext(r.p), ident, r.q)
                        [] is(r.p, Rcurly) ->
                             objectFields(r.p, setField(obj, ident, r.q))
                        [] OTHER -> fail(r.p)
             named(n) ==
                 IF ~is(n, Colon) THEN fail(n)
                 ELSE on(p.curr.Literal, valueOrQuery(pnext(n)))
         IN  CASE is(p, Dot) -> on(p.peek.Literal, valueOrQuery(p))
               [] is(p, Literal) ->
                     named(pnext(p))
               [] OTHER -> fail(p)

parseObject(p0) ==
    LET made(a) == PRet(push(a.p, a.q), a.q, ErrNil)
        body(l) ==
            IF l.err # ErrNil \/ ~is(l.p, Rcurly) THEN PRet(l.p, 0, ErrParse)
            ELSE made(alloc(pnext(l.p), l.list))
    IN  leave(body(objectFields(pnext(enter(p0)), Object(<<>>, <<>>))))

invoke(fn, p, q) ==
    CASE fn = "parseQuery" -> parseQuery(p)
      [] fn = "parseDot" -> parseDot(p)
      [] fn = "parseIdent" -> parseIdent(p)
      [] fn = "parseIndex" -> parseIndex(p)
      [] fn = "parsePipe" -> parsePipe(p, q)
      [] fn = "parseArray" -> parseArray(p)
      [] fn = "parseObject" -> parseObject(p)

\* strings.TrimSpace, on the blanks of ASCII
TrimSpace(str) ==
    LET blank(c) == c \in {" ", "\t", "\n", "\r"}
        keep_ == {i \in 1..Len(str) : ~blank(str[i])}
    IN  IF keep_ = {} THEN <<>>
        ELSE SubSeq(str, CHOOSE i \in keep_ : \A j \in keep_ : i <= j,
                    CHOOSE i \in keep_ : \A j \in keep_ : i >= j)

\* one turn of the loop of Parser.parse: a query, and what follows it
parseTurn(p0) ==
    LET comma(m, q) == IF is(m, Eof) THEN PRet(m, 0, ErrParse)
                       ELSE PRet(reset(m), q, ErrNil)
        on(r) ==
            IF r.err # ErrNil THEN r
            ELSE CASE is(r.p, Comma) -> comma(pnext(r.p), r.q)
                   [] is(r.p, Eof) -> PRet(reset(r.p), r.q, ErrNil)
                   [] OTHER -> PRet(r.p, 0, ErrParse)
    IN  on(parseQuery(p0))

\* the end of Parser.parse: the one query, or the Any of the list
parseEnd(p, list) ==
    IF Len(list) = 1 THEN PRet(p, list[1], ErrNil) ELSE alloc(p, AnyQ(list))

RECURSIVE parseList(_, _)
\* Parser.parse
parseList(p, list) ==
    IF done(p) THEN parseEnd(p, list)
    ELSE LET on(r) == IF r.err # ErrNil THEN r
                      ELSE parseList(r.p, Append(list, r.q))
         IN  on(parseTurn(p))

\* Parse
Parse(str) ==
    IF TrimSpace(str) = <<".">> THEN alloc(NewParser(<<>>), All)
    ELSE parseList(pnext(pnext(NewParser(TrimSpace(str)))), <<>>)

\* --------------------------------------------------- the query texts

\* the texts Parse has to accept: . .ident ."ident" .'ident' .first.last
\* .first,.last .[] .[0,1,2] .array[] .array[].ident {} {a: .a} {.a} []
\* [.a] [.a, (.b | .c)] ..name and .foo | $
AcceptSet ==
    {<<".">>,
     <<".", "i", "d", "e", "n", "t">>,
     <<".", "\"", "i", "d", "e", "n", "t", "\"">>,
     <<".", "'", "i", "d", "e", "n", "t", "'">>,
     <<".", "f", "i", "r", "s", "t", ".", "l", "a", "s", "t">>,
     <<".", "f", "i", "r", "s", "t", ",", ".", "l", "a", "s", "t">>,
     <<".", "[", "]">>,
     <<".", "[", "0", ",", "1", ",", "2", "]">>,
     <<".", "a", "r", "r", "a", "y", "[", "]">>,
     <<".", "a", "r", "r", "a", "y", "[", "]", ".", "i", "d", "e", "n",
       "t">>,
     <<"{", "}">>,
     <<"{", "a", ":", " ", ".", "a", "}">>,
     <<"{", ".", "a", "}">>,
     <<"[", "]">>,
     <<"[", ".", "a", "]">>,
     <<"[", ".", "a", ",", " ", "(", ".", "b", " ", "|", " ", ".", "c",
       ")", "]">>,
     <<".", ".", "n", "a", "m", "e">>,
     <<".", "f", "o", "o", " ", "|", " ", "$">>}

\* the texts Parse has to reject: ident .ident. ._ident .1ident .a,.b, .'a
\* .a[1,2 .a[ .a[1 2 .[ .] .a["foobar"] . | and |
RejectSet ==
    {<<"i", "d", "e", "n", "t">>,
     <<".", "i", "d", "e", "n", "t", ".">>,
     <<".", "_", "i", "d", "e", "n", "t">>,
     <<".", "1", "i", "d", "e", "n", "t">>,
     <<".", "a", ",", ".", "b", ",">>,
     <<".", "'", "a">>,
     <<".", "a", "[", "1", ",", "2">>,
     <<".", "a", "[">>,
     <<".", "a", "[", "1", " ", "2">>,
     <<".", "[">>,
     <<".", "]">>,
     <<".", "a", "[", "\"", "f", "o", "o", "b", "a", "r", "\"", "]">>,
     <<".", " ", "|">>,
     <<"|">>}

\* more texts of the kinds that are to be rejected: a.b .a.. .[]. ."a .[0
\* .[0 1] .[a] .a, | .a .a | .b | .a | and .[] |
RejectMore ==
    {<<"a", ".", "b">>,
     <<".", "a", ".", ".">>,
     <<".", "[", "]", ".">>,
     <<".", "\"", "a">>,
     <<".", "[", "0">>,
     <<".", "[", "0", " ", "1", "]">>,
     <<".", "[", "a", "]">>,
     <<".", "a", ",">>,
     <<"|", " ", ".", "a">>,
     <<".", "a", " ", "|", " ", ".", "b", " ", "|">>,
     <<".", "a", " ", "|">>,
     <<".", "[", "]", " ", "|">>}

\* the other texts of TestParseBase, and the empty text, .., a text in
\* blanks, a field given twice, values in an array, and $ alone, with a
\* number and after a comma
OtherTexts ==
    {<<".", " ", "|", " ", ".", "i", "d", "e", "n", "t">>,
     <<".", "i", "d", "e", "n", "t", " ", "|", " ", ".", "i", "d", "e",
       "n", "t">>,
     <<".", "'", "i", "d", "e", "n", "t", "'", "[", "]">>,
     <<".", "'", "p", "a", "r", "e", "n", "t", "'", ".", "\"", "c", "h",
       "i", "l", "d", "\"">>,
     <<".", "[", "0", ",", " ", "1", ",", " ", "2", "]">>,
     <<"{", "i", "d", "e", "n", "t", ":", " ", ".", "i", "d", "e", "n",
       "t", "}">>,
     <<"{", ".", "i", "d", "e", "n", "t", "}">>,
     <<"[", ".", "i", "d", "e", "n", "t", "]">>,
     <<"[", ".", "i", "d", "e", "n", "t", "]", " ", "|", " ", "{", "d",
       "a", "t", "a", ":", " ", ".", "i", "d", "e", "n", "t", "}",
       " ", "|", " ", ".", "d", "a", "t", "a">>,
     <<".", "i", "d", "e", "n", "t", "[", "]", " ", "|", " ", "{", "x",
       ":", " ", ".", "i", "d", "e", "n", "t", ",", " ", "y", ":",
       " ", "(", ".", "i", "d", "e", "n", "t", " ", "|", " ", ".",
       "i", "d", "e", "n", "t", ")", "}">>,
     <<"[", ".", "i", "d", "e", "n", "t", ",", " ", "(", ".", "i", "d",
       "e", "n", "t", " ", "|", " ", ".", "i", "d", "e", "n", "t",
       ")", ",", " ", ".", "i", "d", "e", "n", "t", "]">>,
     <<>>,
     <<".", ".">>,
     <<" ", ".", "a", "\t">>,
     <<"{", "a", ":", " ", "1", ",", " ", "a", ":", " ", ".", "b", "}">>,
     <<"[", "1", ",", " ", "\"", "s", "\"", "]">>,
     <<"$">>,
     <<".", "a", " ", "|", " ", "$", "1">>,
     <<".", "a", ",", " ", "$">>}

\* the texts of Queries, in the order of Queries
QueryTexts ==
    {<<".">>,
     <<".", "a">>,
     <<".", "b">>,
     <<".", "a", ".", "a">>,
     <<".", "a", ".", "b">>,
     <<".", "[", "]">>,
     <<".", "[", "0", "]">>,
     <<".", "a", "[", "]">>,
     <<".", "a", ",", ".", "b">>,
     <<"[", ".", "a", ",", " ", ".", "b", "]">>,
     <<"[", ".", "a", ".", "a", ",", " ", ".", "a", ".", "b", "]">>,
     <<"{", "x", ":", " ", ".", "a", ",", " ", "y", ":", " ", ".", "b",
       "}">>,
     <<".", "a", " ", "|", " ", ".", "b">>,
     <<".", "[", "]", " ", "|", " ", ".", "a">>,
     <<".", "a", " ", "|", " ", "$">>,
     <<"[", ".", "a", "]", " ", "|", " ", "$">>,
     <<".", ".", "a">>,
     <<"{", "x", ":", " ", ".", "a", ",", " ", "n", ":", " ", "1", "}">>,
     <<".", "a", " ", "|", " ", ".", "b", " ", "|", " ", ".", "a">>,
     <<".", "a", " ", "|", " ", ".", "a", ".", "b", " ", "|", " ", ".",
       "a">>,
     <<".", "[", "1", ",", "0", "]">>,
     <<"[", ".", "a", ".", "b", ",", " ", ".", "b", "]", " ", "|", " ",
       "$">>,
     <<"{", "x", ":", " ", ".", "a", ",", " ", "y", ":", " ", ".", "a",
       "}">>,
     <<"{", "x", ":", " ", "1", ",", " ", "y", ":", " ", "2", "}">>,
     <<"[", "x", ",", " ", "\"", "b", "\"", "]">>}

\* ----------------------------------------------------------- the session

\* the orders in which a map may be iterated: the permutations of 1..2
Perms == {<<1, 2>>, <<2, 1>>}

Doc(text, val, kind) == [text |-> text, val |-> val, kind |-> kind]

\* no Parse is running
NoParser ==
    [text |-> <<>>, kind |-> "none", first |-> <<>>, p |-> NewParser(<<>>),
     list |-> <<>>, phase |-> "return"]

\* ------------------------------------------------------- the writer
(* The writer that keeps the runes read while it does not discard.  buf is  *)
(* kept as the runes encoded in buf[:ptr], ptr being the number of their   *)
(* bytes; inner is what the sink has received; calls is the history of     *)
(* the calls made, which the program does not keep.                        *)

\* utf8.RuneLen: RuneError, U+FFFD, is three bytes long; every other rune
\* here has one
RuneLen(r) == IF r = RuneError THEN 3 ELSE 1

\* len(w.buf), 4096 in the source, scaled down
BufLen == 4

\* the calls made on one writer before close
MaxCalls == 5

Runes == {"a", "b", NUL, RuneError}

\* no writer in use
NoWriter ==
    [state |-> "none", discard |-> TRUE, inner |-> <<>>, buf |-> <<>>,
     ptr |-> 0, wipeable |-> FALSE, calls |-> <<>>]

writeTo == [NoWriter EXCEPT !.state = "open"]

\* writer.flush: all but the last rune goes to the sink; the last rune stays
\* in the buffer unless it is the rune 0
flush(w) ==
    IF w.ptr <= 0 \/ w.discard THEN w
    ELSE LET r == w.buf[Len(w.buf)]
         IN  IF r = RuneError THEN w
             ELSE [w EXCEPT !.inner = @ \o SubSeq(w.buf, 1, Len(w.buf) - 1),
                            !.buf = IF r # NUL THEN <<r>> ELSE <<>>,
                            !.ptr = IF r # NUL THEN RuneLen(r) ELSE 0]

\* writer.writeRune; utf8.EncodeRune panics on a slice shorter than the rune
writeRune(w, r) ==
    IF w.discard THEN w
    ELSE LET z == RuneLen(r)
             put(f) == IF f.ptr + z > BufLen THEN [f EXCEPT !.state = "panic"]
                       ELSE [f EXCEPT !.buf = Append(@, r), !.ptr = @ + z,
                                      !.wipeable = TRUE]
         IN  put(IF w.ptr + z >= BufLen THEN flush(w) ELSE w)

\* writer.unwriteRune
unwriteRune(w) ==
    IF ~w.wipeable THEN w
    ELSE IF w.discard \/ w.ptr = 0 THEN w
    ELSE [w EXCEPT !.buf = SubSeq(@, 1, Len(@) - 1),
                   !.ptr = @ - RuneLen(w.buf[Len(w.buf)]),
                   !.wipeable = FALSE]

\* writer.toggle
writerToggle(w) == LET on(f) == [f EXCEPT !.discard = ~@] IN on(flush(w))

\* writer.close
writerClose(w) ==
    LET on(f) == IF f.ptr = 0 THEN [f EXCEPT !.state = "closed"]
                 ELSE [f EXCEPT !.inner = @ \o f.buf, !.state = "closed"]
    IN  on(flush(w))

\* no other goroutine evaluates
NoPeer ==
    [who |-> "none", root |-> 0, rstack |-> <<>>, stack |-> <<>>,
     ret |-> ErrNil, status |-> "none", out |-> <<>>, dropped |-> FALSE,
     doc |-> Doc(<<>>, <<>>, "none"), query |-> ""]

\* Execute(d, t): Parse, which returns the tree t, and the call of
\* execute(r, q)
Start(t, d) ==
    /\ heap = t.heap
    /\ root = t.root
    /\ rstack = <<prepare(d.text)>>
    /\ stack = <<Frame("Read", t.root)>>
    /\ ret = ErrNil
    /\ status = "run"
    /\ out = <<>>
    /\ dropped = FALSE
    /\ doc = d
    /\ query = t.text
    /\ parser = NoParser
    /\ peer = NoPeer
    /\ writer = NoWriter

\* a call still to make: Execute of a query on a document, or on the output
\* of the call before (prev), or clear and execute on the tree in use
Call(op, t, d, prev) == [op |-> op, tree |-> t, d |-> d, prev |-> prev]

\* the outcome of a call, as the session keeps it
Outcome ==
    [query |-> query, doc |-> doc, status |-> status, out |-> out,
     heap |-> heap, root |-> root, dropped |-> dropped]

\* the next Execute of a session, once the call before has returned
Chain ==
    /\ status # "run" /\ script # <<>> /\ Head(script).op = "Execute"
    /\ Head(script).prev => status = "ok"
    /\ LET c == Head(script)
           d == IF c.prev THEN Doc(out, doc.val, "output") ELSE c.d
       IN  /\ heap' = c.tree.heap
           /\ root' = c.tree.root
           /\ rstack' = <<prepare(d.text)>>
           /\ stack' = <<Frame("Read", c.tree.root)>>
           /\ doc' = d
           /\ query' = c.tree.text
    /\ ret' = ErrNil /\ status' = "run" /\ out' = <<>> /\ dropped' = FALSE
    /\ saved' = Append(saved, Outcome)
    /\ script' = Tail(script)
    /\ UNCHANGED <<parser, peer, writer>>

\* q.clear() and execute(r, q) on the tree in use
Again ==
    /\ status # "run" /\ script # <<>> /\ Head(script).op = "clear"
    /\ heap' = clear(heap, root)
    /\ rstack' = <<prepare(Head(script).d.text)>>
    /\ stack' = <<Frame("Read", root)>>
    /\ doc' = Head(script).d
    /\ ret' = ErrNil /\ status' = "run" /\ out' = <<>> /\ dropped' = FALSE
    /\ saved' = Append(saved, Outcome)
    /\ script' = Tail(script)
    /\ UNCHANGED <<root, query, parser, peer, writer>>

\* c := q.Clone() on the tree t just parsed, t and c kept
CloneOf(t) ==
    LET on(c) == Tree(t.text, c.id, c.h) IN on(Clone(t.heap, t.root))

(* Two goroutines: execute(r1, q) on the tree of the call and, on the       *)
(* clone q.Clone(), execute(r2, c).  The first evaluates the document of    *)
(* the first call of the session, the second the document just evaluated;  *)
(* the second has not run yet.                                              *)
Together ==
    /\ status # "run" /\ script # <<>> /\ Head(script).op = "Together"
    /\ LET c == CloneOf(Head(script).tree)
           t == Head(script).tree
       IN  /\ heap' = c.heap
           /\ root' = t.root
           /\ rstack' = <<prepare(saved[1].doc.text)>>
           /\ stack' = <<Frame("Read", t.root)>>
           /\ doc' = saved[1].doc
           /\ query' = t.text
           /\ peer' = [who |-> "clone", root |-> c.root,
                       rstack |-> <<prepare(doc.text)>>,
                       stack |-> <<Frame("Read", c.root)>>, ret |-> ErrNil,
                       status |-> "run", out |-> <<>>, dropped |-> FALSE,
                       doc |-> doc, query |-> t.text]
    /\ ret' = ErrNil /\ status' = "run" /\ out' = <<>> /\ dropped' = FALSE
    /\ saved' = Append(saved, Outcome)
    /\ script' = Tail(script)
    /\ UNCHANGED <<parser, writer>>

\* the goroutine that evaluates now: the one of the tree, or of its clone
Who == IF peer.who = "clone" THEN "tree" ELSE "clone"

\* the scheduler: the other goroutine runs from here, this one waits
Yield ==
    /\ peer.status = "run"
    /\ peer' = [who |-> Who, root |-> root, rstack |-> rstack,
                stack |-> stack, ret |-> ret, status |-> status, out |-> out,
                dropped |-> dropped, doc |-> doc, query |-> query]
    /\ root' = peer.root /\ rstack' = peer.rstack /\ stack' = peer.stack
    /\ ret' = peer.ret /\ status' = peer.status /\ out' = peer.out
    /\ dropped' = peer.dropped /\ doc' = peer.doc /\ query' = peer.query
    /\ UNCHANGED <<heap, script, saved, parser, writer>>

\* a call of Parse on a text of some kind: the Parser, the queries of the
\* list of Parser.parse, and the point reached (Parse, parse, return)
Parsing(text, kind) ==
    [text |-> text, kind |-> kind, first |-> <<>>, p |-> NewParser(<<>>),
     list |-> <<>>, phase |-> "Parse"]

\* a call of Parse on a text with a link, and the node the link is to name
ParsingLink(text, first) == [Parsing(text, "link") EXCEPT !.first = first]

\* Parse, up to its call of Parser.parse: the identity is returned at once
ParseCall ==
    /\ status = "parse" /\ parser.phase = "Parse"
    /\ IF TrimSpace(parser.text) = <<".">>
       THEN /\ heap' = <<All>> /\ root' = 1 /\ status' = "parsed"
            /\ parser' = [parser EXCEPT !.phase = "return"]
       ELSE /\ parser' = [parser EXCEPT
                             !.p = pnext(pnext(NewParser(TrimSpace(parser.text)))),
                             !.phase = "parse"]
            /\ UNCHANGED <<heap, root, status>>
    /\ UNCHANGED <<rstack, stack, ret, out, dropped, doc, query, script, saved,
                   peer, writer>>

\* Parser.parse: one turn of the loop; an error is returned with no tree
ParseTurn ==
    /\ status = "parse" /\ parser.phase = "parse" /\ ~done(parser.p)
    /\ LET on(r) ==
               IF r.err # ErrNil
               THEN /\ parser' = [parser EXCEPT !.p = r.p, !.phase = "return"]
                    /\ status' = "perr"
               ELSE /\ parser' = [parser EXCEPT !.p = r.p,
                                                !.list = Append(@, r.q)]
                    /\ status' = status
       IN  on(parseTurn(parser.p))
    /\ UNCHANGED <<heap, root, rstack, stack, ret, out, dropped, doc, query,
                   script, saved, peer, writer>>

\* Parser.parse, from the end of the loop: the tree is returned
ParseReturn ==
    /\ status = "parse" /\ parser.phase = "parse" /\ done(parser.p)
    /\ LET on(r) ==
               /\ heap' = r.p.heap /\ root' = r.q
               /\ parser' = [parser EXCEPT !.p = r.p, !.phase = "return"]
       IN  on(parseEnd(parser.p, parser.list))
    /\ status' = "parsed"
    /\ UNCHANGED <<rstack, stack, ret, out, dropped, doc, query, script, saved,
                   peer, writer>>

\* ------------------------------------------------- the bounded inputs

\* the largest number of elements of a generated array or object
MaxElems == 2

\* the largest length of a generated number text
MaxNumLen == 3

One == Scalar(<<"1">>)

Str == Scalar(<<"\"", "s", " ", "t", "\"">>)

\* scalars: numbers, strings (with a blank, an escaped quote, an escaped
\* backslash), true and null
Scalars ==
    {One, Str, Scalar(<<"0">>), Scalar(<<"-", "1">>),
     Scalar(<<"1", "2", ".", "5", "e", "+", "2">>),
     Scalar(<<"t", "r", "u", "e">>), Scalar(<<"n", "u", "l", "l">>),
     Scalar(<<"\"", "\\", "\"", "\"">>), Scalar(<<"\"", "\\", "\\", "\"">>)}

Leaves == {One, Str}

Keys == {A, B}

SeqsOf(S, n) == UNION {[1..m -> S] : m \in 0..n}

\* arrays of leaves, and objects whose i-th member holds i
Arrays == {Arr(e) : e \in SeqsOf(Leaves, MaxElems)}

Objects ==
    {Obj(k, [i \in 1..Len(k) |-> Scalar(Itoa(i))]) : k \in SeqsOf(Keys, MaxElems)}

Flat == Arrays \cup Objects

\* a value one level down: under a key, in an array, after another member
Nested ==
    UNION {{Obj(<<A>>, <<v>>), Arr(<<v>>), Obj(<<B, A>>, <<One, v>>)} :
           v \in Flat}

\* values two and more levels down, for the queries that recurse, pipe
\* twice or pipe within a stage
Deep ==
    {Obj(<<A>>, <<Obj(<<A, B>>, <<Obj(<<A>>, <<One>>), Str>>)>>),
     Obj(<<A>>, <<Obj(<<A>>, <<Obj(<<B>>, <<Obj(<<A>>, <<One>>)>>)>>)>>),
     Obj(<<A>>, <<Obj(<<A>>, <<Arr(<<One, Str>>)>>)>>),
     Arr(<<Obj(<<A>>, <<Obj(<<B>>, <<One>>)>>), Obj(<<A>>, <<Str>>)>>),
     Arr(<<Scalar(<<"\"", "\\", "\\", "\"">>), One>>),
     Obj(<<A>>, <<Scalar(<<"0">>)>>),
     Obj(<<B>>, <<Obj(<<A>>, <<Obj(<<B>>, <<One>>)>>)>>)}

Values == Scalars \cup Flat \cup Nested \cup Deep

ProperPrefixes(t) == {SubSeq(t, 1, n) : n \in 0..(Len(t) - 1)}

\* a complete value, blanks, and one more rune
Trailing(t) == {t \o <<" ", g>> : g \in {"2", "x", ","}}

Bad == Scalar(<<>>)

ValidDocs ==
    {Doc(Compact(v), v, "valid") : v \in Values}
    \cup {Doc(Loose(v), v, "valid") : v \in Scalars \cup Flat \cup Deep}

PrefixDocs ==
    UNION {{Doc(t, Bad, "prefix") : t \in ProperPrefixes(Canon(v))} :
           v \in Deep \cup {Str}}

TrailDocs ==
    UNION {{Doc(t, v, "trail") : t \in Trailing(Compact(v))} :
           v \in Scalars \cup Deep}

\* a container with a comma before its closing bracket
CommaDocs ==
    {Doc(SubSeq(Compact(v), 1, Len(Compact(v)) - 1) \o <<",">>
         \o <<Compact(v)[Len(Compact(v))]>>, Bad, "comma") :
        v \in {w \in Flat \cup Nested : w.e # <<>>}}

\* the texts over NumRunes that start as a number does, in an array
NumRunes == {"-", "0", "1", ".", "e"}

NumTexts ==
    {t \in UNION {[1..m -> NumRunes] : m \in 1..MaxNumLen} :
        t[1] \in {"-", "0", "1"}}

NumDocs == {Doc(<<"[">> \o t \o <<"]">>, Scalar(t), "number") : t \in NumTexts}

Cases ==
    {[t |-> Queries[q], d |-> d] : q \in 1..Len(Queries), d \in ValidDocs}
    \cup {[t |-> Queries[q], d |-> d] : q \in {1, 2, 8, 10, 13}, d \in PrefixDocs}
    \cup {[t |-> Queries[q], d |-> d] : q \in {1, 2}, d \in TrailDocs}
    \cup {[t |-> Queries[1], d |-> d] : d \in NumDocs}
    \cup {[t |-> Queries[q], d |-> d] : q \in {1, 2, 6}, d \in CommaDocs}

Init ==
    /\ \E c \in Cases : Start(c.t, c.d)
    /\ script = <<>>
    /\ saved = <<>>

Next ==
    \/ ReadStart
    \/ ReadEnd
    \/ Traverse
    \/ ObjectKey
    \/ ObjectEnd
    \/ ArrayElem
    \/ ArrayEnd
    \/ \E perm \in Perms : FilterOn(perm)
    \/ FilterEnd
    \/ Updated
    \/ Update
    \/ Reset
    \/ PipeRun
    \/ \E perm \in Perms : PipeRet(perm)
    \/ \E perm \in Perms : Finish(perm)

Spec == Init /\ [][Next]_vars

(* The program runs: weak fairness of Next.  A step of Next can be taken    *)
(* exactly while the call has not returned: each frame has its action, the  *)
(* empty stack has Finish, and each of them changes the stack or the        *)
(* status.  With status = "run" for ENABLED <<Next>>_vars, weak fairness,   *)
(* <>[]ENABLED <<Next>>_vars => []<><<Next>>_vars, is the formula Fair.     *)
Fair == []<>(status # "run") \/ []<><<Next>>_vars

SpecLive == Init /\ [][Next]_vars /\ Fair

\* --------------------------------------------------- sessions of calls

NoDoc == Doc(<<>>, Bad, "none")

Session(t, d, calls) == [t |-> t, d |-> d, script |-> calls]

ChainDocs == {Doc(Compact(v), v, "valid") : v \in Objects \cup Nested \cup Deep}

PipeHeads == {".a", ".a.b", ".[]", ".[0]", ".a[]", "[.a, .b]", "{x: .a, y: .b}"}

PipeStages == {".", ".a", ".[]", "[.a, .b]", "{x: .a, y: .b}"}

\* Execute(D, Q1), Execute of Q2 on its output, Execute(D, "Q1 | Q2")
PipeSessions ==
    {Session(Q(h), d,
             <<Call("Execute", Q(s), NoDoc, TRUE),
               Call("Execute", ParsePipe(Q(h), Q(s)), d, FALSE)>>) :
        h \in PipeHeads, s \in PipeStages, d \in ChainDocs}

\* each child of an Array constructor alone, then the constructor
AloneSessions ==
    {Session(Q(c[1]), d,
             <<Call("Execute", Q(c[2]), d, FALSE),
               Call("Execute", Q(c[3]), d, FALSE)>>) :
        c \in {<<".a", ".b", "[.a, .b]">>, <<".a.a", ".a.b", "[.a.a, .a.b]">>},
        d \in ChainDocs}

InitChain ==
    /\ \E c \in PipeSessions \cup AloneSessions :
          Start(c.t, c.d) /\ script = c.script
    /\ saved = <<>>

NextChain == Next \/ Chain

SpecChain == InitChain /\ [][NextChain]_vars

\* the documents a tree is used on before it is cleared: with matches at
\* two depths, with several captures, and cut in the middle of a capture
UsedDocs ==
    {Doc(Compact(v), v, "valid") : v \in Deep}
    \cup {Doc(<<"{", "\"", "a", "\"", ":", "{", "\"", "a", "\"", ":", "1", ",">>,
              Bad, "prefix")}

ReuseDocs == {Doc(Compact(v), v, "valid") : v \in Objects \cup Deep}

\* Execute(D2, T) on a fresh tree; then Parse(T), execute on D1, clear,
\* execute on D2
ReuseSessions ==
    {Session(Queries[q], d2,
             <<Call("Execute", Queries[q], d1, FALSE),
               Call("clear", Queries[q], d2, FALSE)>>) :
        q \in 1..Len(Queries), d1 \in UsedDocs, d2 \in ReuseDocs}

InitReuse ==
    /\ \E c \in ReuseSessions : Start(c.t, c.d) /\ script = c.script
    /\ saved = <<>>

NextReuse == Next \/ Chain \/ Again

SpecReuse == InitReuse /\ [][NextReuse]_vars

\* the documents two goroutines evaluate: an object in an object, and an
\* array of an object
CloneDocs ==
    {Doc(Compact(v), v, "valid") :
        v \in {Obj(<<A>>, <<Obj(<<A>>, <<One>>)>>),
               Arr(<<Obj(<<A, B>>, <<One, Str>>)>>)}}

\* the trees cloned: with a Pointer, with a stage, with children, a path
CloneTrees == {".a | $", "[.a] | $", ".a | .b", "[.a, .b]", ".[]"}

\* Execute(D1, T) alone, execute(D2, T.Clone()) alone, then both at once
CloneSessions ==
    {Session(Q(t), d1,
             <<Call("Execute", CloneOf(Q(t)), d2, FALSE),
               Call("Together", Q(t), d2, FALSE)>>) :
        t \in CloneTrees, d1 \in CloneDocs, d2 \in CloneDocs}

InitClone ==
    /\ \E c \in CloneSessions : Start(c.t, c.d) /\ script = c.script
    /\ saved = <<>>

NextClone == Next \/ Chain \/ Together \/ Yield

SpecClone == InitClone /\ [][NextClone]_vars

(* The writer on its own: any calls of writeRune, unwriteRune and toggle,  *)
(* then close.                                                             *)
Called(w, c) == [w EXCEPT !.calls = Append(@, c)]

WriteRune ==
    /\ writer.state = "open" /\ Len(writer.calls) < MaxCalls
    /\ \E r \in Runes : writer' = Called(writeRune(writer, r), <<"writeRune", r>>)
    /\ UNCHANGED <<heap, root, rstack, stack, ret, status, out, dropped, doc,
                   query, script, saved, parser, peer>>

UnwriteRune ==
    /\ writer.state = "open" /\ Len(writer.calls) < MaxCalls
    /\ writer' = Called(unwriteRune(writer), <<"unwriteRune">>)
    /\ UNCHANGED <<heap, root, rstack, stack, ret, status, out, dropped, doc,
                   query, script, saved, parser, peer>>

Toggle ==
    /\ writer.state = "open" /\ Len(writer.calls) < MaxCalls
    /\ writer' = Called(writerToggle(writer), <<"toggle">>)
    /\ UNCHANGED <<heap, root, rstack, stack, ret, status, out, dropped, doc,
                   query, script, saved, parser, peer>>

Close ==
    /\ writer.state = "open"
    /\ writer' = Called(writerClose(writer), <<"close">>)
    /\ UNCHANGED <<heap, root, rstack, stack, ret, status, out, dropped, doc,
                   query, script, saved, parser, peer>>

InitWriter ==
    /\ writer = writeTo
    /\ status = "writer"
    /\ heap = <<>> /\ root = 0 /\ rstack = <<>> /\ stack = <<>>
    /\ ret = ErrNil /\ out = <<>> /\ dropped = FALSE
    /\ doc = NoDoc /\ query = "" /\ script = <<>> /\ saved = <<>>
    /\ parser = NoParser /\ peer = NoPeer

NextWriter == WriteRune \/ UnwriteRune \/ Toggle \/ Close

SpecWriter == InitWriter /\ [][NextWriter]_vars

(* The texts with a link.  With each, the node that is registered first in  *)
(* the group of the link when the link is read, as its kind and name: the   *)
(* first node made at depth one since the last top-level comma; none (<<>>) *)
(* in the texts $  $1  .a, $  [.a], $  [$]  [.a, $]  {x: $}  [.a | $]  and   *)
(* .a | $, $                                                                *)
LinkTexts ==
    {ParsingLink(<<".", "a", " ", "|", " ", "$">>,
                 <<"ident", A>>),
     ParsingLink(<<".", "a", " ", "|", " ", "$", "0">>,
                 <<"ident", A>>),
     ParsingLink(<<".", "a", ".", "b", " ", "|", " ", "$">>,
                 <<"ident", A>>),
     ParsingLink(<<".", "a", " ", "|", " ", ".", "b", " ", "|", " ", "$">>,
                 <<"ident", A>>),
     ParsingLink(<<".", "b", " ", "|", " ", ".", "a", " ", "|", " ", "$">>,
                 <<"ident", B>>),
     ParsingLink(<<"[", ".", "a", "]", " ", "|", " ", "$">>,
                 <<"array", <<>>>>),
     ParsingLink(<<"{", "x", ":", " ", ".", "a", "}", " ", "|", " ", "$">>,
                 <<"object", <<>>>>),
     ParsingLink(<<".", "a", " ", "|", " ", "[", "$", "]">>,
                 <<"ident", A>>),
     ParsingLink(<<".", "a", " ", "|", " ", "{", "x", ":", " ", "$", "}">>,
                 <<"ident", A>>),
     ParsingLink(<<".", "a", ",", " ", ".", "b", " ", "|", " ", "$">>,
                 <<"ident", B>>),
     ParsingLink(<<"$">>, <<>>),
     ParsingLink(<<"$", "1">>, <<>>),
     ParsingLink(<<".", "a", ",", " ", "$">>, <<>>),
     ParsingLink(<<"[", ".", "a", "]", ",", " ", "$">>, <<>>),
     ParsingLink(<<"[", "$", "]">>, <<>>),
     ParsingLink(<<"[", ".", "a", ",", " ", "$", "]">>, <<>>),
     ParsingLink(<<"{", "x", ":", " ", "$", "}">>, <<>>),
     ParsingLink(<<"[", ".", "a", " ", "|", " ", "$", "]">>, <<>>),
     ParsingLink(<<".", "a", " ", "|", " ", "$", ",", " ", "$">>, <<>>)}

\* the calls of Parse
ParseTexts ==
    {Parsing(t, "accept") : t \in AcceptSet}
    \cup {Parsing(t, "reject") : t \in RejectSet \cup RejectMore}
    \cup {Parsing(t, "other") : t \in OtherTexts \cup QueryTexts}
    \cup LinkTexts

InitParse ==
    /\ parser \in ParseTexts
    /\ status = "parse"
    /\ heap = <<>> /\ root = 0 /\ rstack = <<>> /\ stack = <<>>
    /\ ret = ErrNil /\ out = <<>> /\ dropped = FALSE
    /\ doc = NoDoc /\ query = "" /\ script = <<>> /\ saved = <<>>
    /\ peer = NoPeer /\ writer = NoWriter

NextParse == ParseCall \/ ParseTurn \/ ParseReturn

SpecParse == InitParse /\ [][NextParse]_vars

\* ------------------------------------------- JSON, as RFC 8259 has it

At(s, i) == IF i >= 1 /\ i <= Len(s) THEN s[i] ELSE NUL

RECURSIVE SkipBlanks(_, _)
SkipBlanks(s, i) == IF jsonBlank(At(s, i)) THEN SkipBlanks(s, i + 1) ELSE i

RECURSIVE DigitsEnd(_, _)
DigitsEnd(s, i) == IF At(s, i) \in Digits THEN DigitsEnd(s, i + 1) ELSE i

\* the position after the number at i, or 0
NumberEnd(s, i) ==
    LET some(j, k) == IF k > j THEN k ELSE 0
        exp(k) == IF At(s, k) \in {"e", "E"}
                  THEN IF At(s, k + 1) \in {"+", "-"}
                       THEN some(k + 2, DigitsEnd(s, k + 2))
                       ELSE some(k + 1, DigitsEnd(s, k + 1))
                  ELSE k
        frac(k) == IF At(s, k) = "."
                   THEN IF DigitsEnd(s, k + 1) > k + 1
                        THEN exp(DigitsEnd(s, k + 1)) ELSE 0
                   ELSE exp(k)
        int(k) == IF At(s, k) = "0" THEN frac(k + 1)
                  ELSE IF At(s, k) \in Digits THEN frac(DigitsEnd(s, k))
                  ELSE 0
    IN  int(IF At(s, i) = "-" THEN i + 1 ELSE i)

RECURSIVE StringEnd(_, _)
\* the position after the string whose opening quote is before i, or 0
StringEnd(s, i) ==
    IF i > Len(s) \/ At(s, i) \in {"\n", "\t", "\r"} THEN 0
    ELSE IF At(s, i) = "\"" THEN i + 1
    ELSE IF At(s, i) = "\\"
    THEN IF At(s, i + 1) \in {"\"", "\\", "/", "b", "f", "n", "r", "t"}
         THEN StringEnd(s, i + 2)
         ELSE IF At(s, i + 1) = "u" /\ \A k \in 2..5 : jsonHex(At(s, i + k))
         THEN StringEnd(s, i + 6)
         ELSE 0
    ELSE StringEnd(s, i + 1)

WordEnd(s, i) ==
    IF SubSeq(s, i, i + 3) \in {<<"t", "r", "u", "e">>, <<"n", "u", "l", "l">>}
    THEN i + 4
    ELSE IF SubSeq(s, i, i + 4) = <<"f", "a", "l", "s", "e">> THEN i + 5
    ELSE 0

RECURSIVE ValueEnd(_, _), MembersEnd(_, _, _)

\* the position after the value that starts, after blanks, at i, or 0
ValueEnd(s, i) ==
    LET at(j) ==
            CASE At(s, j) = "\"" -> StringEnd(s, j + 1)
              [] At(s, j) \in {"[", "{"} ->
                    LET close == IF At(s, j) = "[" THEN "]" ELSE "}"
                        in(k) == IF At(s, k) = close THEN k + 1
                                 ELSE MembersEnd(s, k, close)
                    IN  in(SkipBlanks(s, j + 1))
              [] At(s, j) \in Digits \cup {"-"} -> NumberEnd(s, j)
              [] At(s, j) \in {"t", "f", "n"} -> WordEnd(s, j)
              [] OTHER -> 0
    IN  IF i = 0 THEN 0 ELSE at(SkipBlanks(s, i))

\* the position after the members from i on and the closing bracket, or 0
MembersEnd(s, i, close) ==
    LET rest(j) == IF j = 0 THEN 0
                   ELSE IF At(s, j) = "," THEN MembersEnd(s, j + 1, close)
                   ELSE IF At(s, j) = close THEN j + 1
                   ELSE 0
        value(v) == IF v = 0 THEN 0 ELSE rest(SkipBlanks(s, v))
        colon(j) == IF j # 0 /\ At(s, j) = ":" THEN j + 1 ELSE 0
        name(j) == IF At(s, j) = "\""
                   THEN colon(SkipBlanks(s, StringEnd(s, j + 1)))
                   ELSE 0
    IN  IF close = "]" THEN value(ValueEnd(s, i))
        ELSE value(ValueEnd(s, name(SkipBlanks(s, i))))

\* s is one JSON value, blanks around it allowed
IsJSON(s) ==
    LET end(e) == e # 0 /\ SkipBlanks(s, e) = Len(s) + 1 IN end(ValueEnd(s, 1))

\* ----------------------------------------------------------- the claims

Returned == status # "run"

\* C1: every Execute, on a well-formed or a malformed document and on any
\* tree (nested pipelines, Recurse, Pointer back-edges), returns in the
\* end, with a result or with an error
C1_Terminates == <>Returned

\* C1's case: an Execute whose stage is a Pointer to the head has returned,
\* the head holding what the stage and the head captured
C1_PointerStageReturned ==
    /\ status = "ok"
    /\ query = ".a | $"
    /\ Len(heap[1].values) > 1

\* C2: Execute(D, ".") on a valid document D succeeds with the canonical
\* compact form of D
C2_IdentityIsCanonical ==
    (Returned /\ query = "." /\ doc.kind = "valid")
        => (status = "ok" /\ out = Canon(doc.val))

\* ---------------------------------------------------------- pipelines

\* the session of Execute(D, Q1), Execute of Q2 on its output and
\* Execute(D, "Q1 | Q2") has made its three calls
PipeSessionDone ==
    /\ Returned /\ script = <<>> /\ Len(saved) = 2
    /\ query = saved[1].query \o " | " \o saved[2].query

RECURSIVE IsPath(_, _)
\* q is a path: key and index steps only
IsPath(h, q) ==
    /\ h[q].kind \in {"ident", "index"}
    /\ h[q].next = 0 \/ IsPath(h, h[q].next)

\* the values the tree of a returned call has captured
Captures(o) == Get(o.heap, o.root, <<1, 2>>)

ObjectProduct(h, q) ==
    LET n == h[q]
        rest == SelectSeq(n.fkeys, LAMBDA k : ~InSeq(k, n.keys))
        cols == n.keys \o rest
        fieldOf(k) == n.kids[CHOOSE i \in 1..Len(n.fkeys) : n.fkeys[i] = k]
        orNull(vs) == IF vs = <<>> THEN << <<"n", "u", "l", "l">> >> ELSE vs
        vals == [j \in 1..Len(cols) |-> orNull(Get(h, fieldOf(cols[j]), <<1, 2>>))]
    IN  writeObject(cols, Combine(vals))

\* C4: an Object constructor renders one object per tuple of the product of
\* its fields' value lists, one tuple as a bare object, several as an array,
\* and a field that captured nothing as null
C4_ObjectIsProduct ==
    (status = "ok" /\ heap[root].kind = "object")
        => out = ObjectProduct(heap, root)

\* the session of each child of an Array constructor alone and then the
\* constructor, over one document, has made its three calls
AloneSessionDone ==
    /\ Returned /\ script = <<>> /\ Len(saved) = 2
    /\ heap[root].kind = "array"

\* C5: after a pass, each child of an Array constructor holds the values it
\* holds when it is evaluated alone over the same document
C5_ChildrenAreIndependent ==
    (AloneSessionDone /\ status = "ok"
     /\ saved[1].status = "ok" /\ saved[2].status = "ok")
        => \A i \in 1..2 :
              Get(heap, heap[root].kids[i], <<1, 2>>) = Captures(saved[i])

\* the children of an Any node that have captured, and their renders
AnyCaptured(h, q) ==
    {i \in 1..Len(h[q].kids) : Get(h, h[q].kids[i], <<1, 2>>) # <<>>}

AnyRenders(h, q) ==
    [i \in 1..Len(h[q].kids) |-> String(h, h[q].kids[i], <<1, 2>>)]

AnyInArray(h, q) == <<"[">> \o JoinWith(AnyRenders(h, q), <<",", " ">>) \o <<"]">>

ReuseDone == Returned /\ script = <<>> /\ Len(saved) = 2

\* C7: a tree that has been evaluated on D1 and cleared gives on D2 what a
\* fresh Execute(D2, T) gives
C7_ClearedTreeIsFresh ==
    ReuseDone => (status = saved[1].status /\ out = saved[1].out)

C7_ReusedAfterCaptures ==
    /\ ReuseDone /\ status = "ok" /\ saved[2].status = "ok"
    /\ Captures(saved[2]) # <<>>
    /\ heap[root].kind \in {"ident", "array", "object", "pipeline"}
    /\ out # saved[2].out /\ out # <<"[", "]">>

\* ------------------------------------------------------------- errors

\* C8: the error of a node's update, or of a pipeline stage run on a
\* captured span, is returned by Execute
C8_ErrorsAreReturned == (Returned /\ dropped) => status = "err"

\* C9: a complete JSON value followed by blanks and a non-blank rune is
\* never answered with a result
C9_TrailingDataIsMalformed ==
    (Returned /\ doc.kind = "trail") => status = "err"

RECURSIVE HasEmpty(_)
\* the value is an empty array or object, or holds one
HasEmpty(v) ==
    /\ v.t \in {"array", "object"}
    /\ v.e = <<>> \/ \E i \in 1..Len(v.e) : HasEmpty(v.e[i])

\* C11: a document with an empty array or object, at the top level or
\* nested, captured or skipped, is consumed without error, and a comma
\* before the closing ']' or '}' is rejected
C11_StandardContainers ==
    /\ (Returned /\ doc.kind = "valid" /\ HasEmpty(doc.val)) => status = "ok"
    /\ (Returned /\ doc.kind = "comma") => status = "err"

\* C12: while a span is captured the wrapper's scanstr flag is set exactly
\* when the reader is inside a string literal, and so a captured value is
\* the source with its strings untouched and its other blanks dropped
C12_ScanstrFollowsStrings ==
    /\ (status = "run" /\ ret = ErrNil /\ rstack # <<>> /\ Rd.wrapped)
           => (Rd.scanstr <=> Rd.keepBlank)
    /\ (status = "ok" /\ query = "." /\ doc.kind = "valid")
           => out = Canon(doc.val)

\* ------------------------------------------------------------ parsing

\* Parse has returned
Parsed == status \in {"parsed", "perr"}

\* C13: Parse returns a tree and no error for every text of the acceptance
\* set
C13_AcceptanceSet ==
    (Parsed /\ parser.kind = "accept") => (status = "parsed" /\ root # 0)

\* C14: Parse returns an error and no tree for every text of the rejection
\* set and of its kinds
C14_RejectionSet ==
    (Parsed /\ parser.kind = "reject") => (status = "perr" /\ root = 0)

RECURSIVE Reach(_, _, _)
\* the nodes of the heap h reachable from the nodes of todo, seen included
Reach(h, todo, seen) ==
    IF todo = {} THEN seen
    ELSE LET q == CHOOSE x \in todo : TRUE
             n == h[q]
             to == ({n.next, n.inner, n.last}
                    \cup {n.kids[i] : i \in 1..Len(n.kids)}) \ {0}
         IN  Reach(h, (todo \cup to) \ (seen \cup {q}), seen \cup {q})

\* two goroutines evaluate, the tree and its clone
Cloned == peer.status # "none"

\* both evaluations have returned
BothReturned == Cloned /\ status # "run" /\ peer.status # "run"

\* status and output of the evaluation of the tree, and of its clone
ResultOf(who) ==
    IF Who = who THEN <<status, out>> ELSE <<peer.status, peer.out>>

\* a step of the goroutine that runs leaves the nodes of the other's tree
KeepsOtherTree ==
    (Cloned /\ peer' = peer)
        => \A q \in Reach(heap, {peer.root}, {}) : heap'[q] = heap[q]

\* C15: two evaluations on a tree and on its clone do not interfere: under
\* every interleaving a step of one leaves every node reachable from the
\* other's root as it was, and each returns what it returns when it runs
\* alone, whether the tree has Pointer nodes or not.
C15_ClonesDoNotInterfere ==
    /\ [][KeepsOtherTree]_vars
    /\ [](BothReturned =>
             /\ ResultOf("tree") = <<saved[1].status, saved[1].out>>
             /\ ResultOf("clone") = <<saved[2].status, saved[2].out>>)

\* the targets of the Pointer stages that are running: the stage i of a
\* pipeline runs from PipeRun to PipeRet, its frame waiting for the return
PointerTargets ==
    {heap[heap[stack[k].q].kids[stack[k].i]].inner :
        k \in {j \in 1..Len(stack) :
                  /\ stack[j].op = "pipelineRet"
                  /\ heap[heap[stack[j].q].kids[stack[j].i]].kind = "ptr"}}

\* C16: evaluating a Pointer never mutates its target: no step taken while
\* a pipeline stage that is a Pointer runs changes the values, last or keys
\* of the node the Pointer points at, so that they are after the stage what
\* they were before it.
C16_PointerKeepsTarget ==
    [][\A t \in PointerTargets :
           /\ heap'[t].values = heap[t].values
           /\ heap'[t].last = heap[t].last
           /\ heap'[t].keys = heap[t].keys]_vars

RECURSIVE Match(_, _, _)
(* The sub-values of the document value v that the path from the node q     *)
(* selects, in the order of the document: the members of v whose key, or    *)
(* whose position counted from 0, the step q names, or within them what    *)
(* the rest of the path selects.                                            *)
Match(v, h, q) ==
    IF v.t = "scalar" THEN <<>>
    ELSE LET n == h[q]
             keyOf(i) == IF v.t = "array" THEN Itoa(i - 1) ELSE v.k[i]
             hit(i) == IF n.kind = "ident" THEN n.name = keyOf(i)
                       ELSE n.list = <<>> \/ InSeq(keyOf(i), n.list)
             sub(i) == IF ~hit(i) THEN <<>>
                       ELSE IF n.next = 0 THEN <<v.e[i]>>
                       ELSE Match(v.e[i], h, n.next)
         IN  Flatten([i \in 1..Len(v.e) |-> sub(i)])

\* a text less its blanks
NoBlanks(t) == SelectSeq(t, LAMBDA c : c \notin {" ", "\t", "\n", "\r"})

HasDuplicateKey(v) ==
    /\ v.t = "object"
    /\ \E i, j \in 1..Len(v.k) : i < j /\ v.k[i] = v.k[j]

\* the members of the object v under the key k, in the order of the document
MembersOf(v, k) ==
    LET at == SelectSeq([i \in 1..Len(v.k) |-> i], LAMBDA i : v.k[i] = k)
    IN  [j \in 1..Len(at) |-> v.e[at[j]]]

\* C18: an object with the same key more than once is read without error,
\* whatever the query, and the query .k on it captures the value of every
\* occurrence of k, in the order of the document.
C18_DuplicateKeysAreKept ==
    (Returned /\ doc.kind = "valid" /\ HasDuplicateKey(doc.val))
        => /\ status = "ok"
           /\ (IsPath(heap, root) /\ heap[root].kind = "ident"
                   /\ heap[root].next = 0)
                 => LET got == heap[root].values
                        want == MembersOf(doc.val, heap[root].name)
                    IN  /\ Len(got) = Len(want)
                        /\ \A i \in 1..Len(got) :
                              NoBlanks(got[i]) = NoBlanks(Compact(want[i]))

\* .a on an object with the key a twice has returned both values
C18_BothOccurrencesCaptured ==
    /\ status = "ok" /\ query = ".a" /\ doc.kind = "valid"
    /\ HasDuplicateKey(doc.val) /\ doc.val.k = <<A, A>>
    /\ heap[root].values = <<Compact(doc.val.e[1]), Compact(doc.val.e[2])>>
    /\ doc.val.e[1] # doc.val.e[2]

\* no node reachable from q holds anything captured
Fresh(h, q) ==
    \A x \in Reach(h, {q}, {}) :
        /\ h[x].values = <<>> /\ h[x].keys = <<>> /\ h[x].last = 0
        /\ h[x].kind = "all" => h[x].value = <<>>

\* pipeline.update is about to run the stage i on its input
StageStarts ==
    /\ status = "run" /\ stack # <<>> /\ Top.op = "pipeline"
    /\ Top.i <= Len(heap[Top.q].kids)

\* the root is a pipeline on the last step of a path
PipeOnPath ==
    /\ heap[root].kind = "pipeline"
    /\ heap[heap[root].inner].kind \in {"ident", "index"}
    /\ heap[heap[root].inner].next = 0

\* C19: the stage chain of a pipeline runs once for each span its head
\* captures, in document order: every stage runs from the cleared state,
\* one stage after the other, and the head stores one final output for each
\* of the n spans.
C19_ChainRunsOncePerCapture ==
    /\ [][StageStarts => Fresh(heap', heap[Top.q].kids[Top.i])]_vars
    /\ []((status = "ok" /\ doc.kind = "valid" /\ PipeOnPath)
             => Len(heap[heap[root].inner].values)
                   = Len(Match(doc.val, heap, heap[root].inner)))

\* what Parse made of a node: all but what an evaluation stores in it
Structure(n) ==
    [kind |-> n.kind, name |-> n.name, list |-> n.list, next |-> n.next,
     inner |-> n.inner, kids |-> n.kids, fkeys |-> n.fkeys,
     value |-> IF n.kind = "literal" THEN n.value ELSE <<>>]

\* the step is clear() on the root of the tree an Execute has evaluated
ClearOnRoot == status # "run" /\ script # <<>> /\ Head(script).op = "clear"

\* C20: clear() on the root of an evaluated tree leaves no captured value
\* in any node of the tree, the stages of its pipelines included, no last
\* and no keys, and leaves the structure of the tree as it is.
C20_ClearResetsEveryNode ==
    [][ClearOnRoot =>
          /\ Fresh(heap', root)
          /\ Len(heap') = Len(heap)
          /\ \A q \in 1..Len(heap) : Structure(heap'[q]) = Structure(heap[q])]_vars

\* C21: an Ident or Index node with a next query never holds a captured
\* value, in any state of an evaluation: what the path captures is appended
\* to the node without a next only.
C21_InnerStepsHoldNothing ==
    \A q \in 1..Len(heap) :
        (heap[q].kind \in {"ident", "index"} /\ heap[q].next # 0)
            => heap[q].values = <<>>

\* no element of the sequence s stands in it twice
NoRepeat(s) == \A i, j \in 1..Len(s) : s[i] = s[j] => i = j

\* C22: in every state of an evaluation the keys of an Object constructor
\* list each field that matched once, in the order of the first match, and
\* the object Execute returns has each field once, also when a field
\* matches several keys of the document.
C22_ObjectKeysOnce ==
    /\ \A q \in 1..Len(heap) :
          heap[q].kind = "object" => NoRepeat(heap[q].keys)
    /\ (status = "ok" /\ heap[root].kind = "object")
          => \A perm \in Perms : NoRepeat(objectColumns(heap, root, perm).keys)

\* the Pointer nodes of the tree Parse returned
Pointers == {q \in 1..Len(heap) : heap[q].kind = "ptr"}

\* C23: Parse accepts a link exactly when a node has been registered in the
\* top-level group of the link, and the Pointer it makes points at the first
\* node registered in that group: a text with a link and no node registered
\* is rejected, nodes of an earlier group not counting.
C23_LinkNamesFirstRegistered ==
    (Parsed /\ parser.kind = "link")
        => IF parser.first = <<>> THEN status = "perr" /\ root = 0
           ELSE /\ status = "parsed" /\ root # 0
                /\ Pointers # {}
                /\ \A q \in Pointers :
                      <<heap[heap[q].inner].kind, heap[heap[q].inner].name>>
                          = parser.first

\* .a, .b | $ is parsed: the Pointer is at the node of .b, of its own group
C23_LinkInSecondGroup ==
    /\ status = "parsed" /\ parser.kind = "link"
    /\ parser.text = <<".", "a", ",", " ", ".", "b", " ", "|", " ", "$">>
    /\ \E q \in Pointers : heap[heap[q].inner].name = B
    /\ \E q \in 1..Len(heap) : heap[q].kind = "ident" /\ heap[q].name = A

RECURSIVE EveryDepth(_, _), Outermost(_, _)
\* the values of the key k at every depth of the value v, in the order in
\* which they start in the document
EveryDepth(v, k) ==
    IF v.t = "scalar" THEN <<>>
    ELSE Flatten([i \in 1..Len(v.e) |->
                     (IF v.t = "object" /\ v.k[i] = k THEN <<v.e[i]>> ELSE <<>>)
                     \o EveryDepth(v.e[i], k)])

\* the values of the key k at every depth of v, less those that lie within
\* a value of the key k
Outermost(v, k) ==
    IF v.t = "scalar" THEN <<>>
    ELSE Flatten([i \in 1..Len(v.e) |->
                     IF v.t = "object" /\ v.k[i] = k THEN <<v.e[i]>>
                     ELSE Outermost(v.e[i], k)])

\* the values ..n has captured are the texts, blanks aside, of the values vs
RecurseHolds(vs) ==
    LET got == Get(heap, root, <<1, 2>>)
    IN  /\ Len(got) = Len(vs)
        /\ \A i \in 1..Len(got) : NoBlanks(got[i]) = NoBlanks(Compact(vs[i]))

\* Execute has returned from ..n on a valid document
RecurseReturned ==
    /\ status = "ok" /\ doc.kind = "valid" /\ query = "..a"
    /\ heap[heap[root].inner].next = 0

\* Recurse.Next: the next of the inner query where it matches the key, the
\* Recurse node itself where it does not
RecurseNext ==
    \A k \in {A, B, <<"0">>} :
        LET x == NextOf(heap, root, k, <<1, 2>>)
            i == NextOf(heap, heap[root].inner, k, <<1, 2>>)
        IN  /\ x.err = ErrNil
            /\ x.next = IF i.err = ErrNil THEN i.next ELSE root

\* C24 as stated: ..n captures the values of the key n at every depth of
\* the document at which it occurs, in document order
C24_RecurseCapturesEveryDepth ==
    RecurseReturned
        => RecurseNext /\ RecurseHolds(EveryDepth(doc.val, heap[heap[root].inner].name))

\* what ..n does capture: in document order, the values of the key n at
\* every depth, inside objects and arrays, except those within a value it
\* has captured, since a captured value is not searched
RecurseCapturesOutermost ==
    RecurseReturned
        => RecurseNext /\ RecurseHolds(Outermost(doc.val, heap[heap[root].inner].name))

RECURSIVE Captured(_, _, _)
\* the runes the calls cs from the i-th on leave captured, discard being d
\* before the i-th: those written while discard is false, less each whose
\* write is directly followed by an unwrite
Captured(cs, i, d) ==
    IF i > Len(cs) THEN <<>>
    ELSE IF cs[i][1] = "toggle" THEN Captured(cs, i + 1, ~d)
    ELSE IF cs[i][1] = "writeRune" /\ ~d
              /\ ~(i < Len(cs) /\ cs[i + 1][1] = "unwriteRune")
         THEN <<cs[i][2]>> \o Captured(cs, i + 1, d)
    ELSE Captured(cs, i + 1, d)

\* C25: after any calls of writeRune, unwriteRune and toggle, then close, the
\* sink has received exactly the runes written while discard was false, in
\* order, less one for each write directly followed by an unwrite; no call
\* drops, duplicates or reorders a captured rune, and close is reached.
C25_SinkReceivesCaptured ==
    /\ writer.state # "panic"
    /\ writer.state = "closed" => writer.inner = Captured(writer.calls, 1, TRUE)

\* every unwrite directly follows a write, and neither the rune 0 nor
\* RuneError is written
PlainCalls ==
    \A i \in 1..Len(writer.calls) :
        /\ writer.calls[i][1] = "unwriteRune"
              => i > 1 /\ writer.calls[i - 1][1] = "writeRune"
        /\ writer.calls[i][1] = "writeRune"
              => writer.calls[i][2] \notin {NUL, RuneError}

\* what the writer does keep: on plain calls the sink receives the captured
\* runes
SinkReceivesPlain ==
    PlainCalls =>
        /\ writer.state # "panic"
        /\ writer.state = "closed" => writer.inner = Captured(writer.calls, 1, TRUE)

\* C26: Execute is deterministic: the order in which Go iterates the field
\* map of an Object decides neither the field that claims a key of the
\* document nor the string returned, whatever the order of the fields that
\* are literals.
C26_MapOrderDoesNotShow ==
    /\ (Running("filter") /\ Top.q # 0)
          => \A perm \in Perms :
                NextOf(heap, Top.q, Top.str, perm)
                    = NextOf(heap, Top.q, Top.str, <<1, 2>>)
    /\ status = "ok" => \A perm \in Perms : String(heap, root, perm) = out

\* reader.filter is about to install the capture wrapper
WrapsNow ==
    /\ Running("filter") /\ Top.q # 0
    /\ \E perm \in Perms :
          LET x == NextOf(heap, Top.q, Top.str, perm)
          IN  x.err = ErrNil /\ ~keepAll(heap, Top.q) /\ x.next = 0

\* wrap is called on a reader without a wrapper, and unwrap on one with it
WrapsDoNotNest ==
    /\ WrapsNow => ~Rd.wrapped
    /\ Running("filterEnd") => Rd.wrapped

\* update is handed the text of one complete value
UpdateHasOneValue == Running("update") => IsJSON(Top.str)

\* C27: capture regions never nest: wrap is never called while a capture
\* wrapper is installed on the reader, each wrap is followed by one unwrap
\* before the next wrap, and so each update receives the text of exactly one
\* complete sub-value.
C27_OneCaptureAtATime == WrapsDoNotNest /\ UpdateHasOneValue

\* the texts that the nodes of the tree hold
HeldValues ==
    UNION {IF heap[q].kind \in {"ident", "index"}
           THEN {heap[q].values[i] : i \in 1..Len(heap[q].values)}
           ELSE IF heap[q].kind = "all" /\ heap[q].value # <<>>
           THEN {heap[q].value}
           ELSE {} : q \in 1..Len(heap)}

\* update is called from the function whose traverse found the document
\* malformed
UpdateAfterMalformed ==
    /\ Running("update") /\ Len(stack) >= 2
    /\ stack[Len(stack) - 1].op = "updated"
    /\ stack[Len(stack) - 1].err = ErrMalformed

\* C30: when the reader finds the document malformed within a value that is
\* being captured, update is not called for that value and no stage runs on
\* it; after an evaluation that ended with the error of a malformed
\* document, every value that a node holds is one complete JSON value.
C30_NothingKeptOfMalformed ==
    /\ ~UpdateAfterMalformed
    /\ (status = "err" /\ ret = ErrMalformed) => \A v \in HeldValues : IsJSON(v)

\* C28: whenever Execute succeeds on a valid JSON document, the string it
\* returns is one well-formed JSON value, whatever the query: constructors
\* with literals, empty constructors, queries that match nothing.
C28_OutputIsJSON == (status = "ok" /\ doc.kind = "valid") => IsJSON(out)

\* C29: update is called on an Any or an Array only while its last is set,
\* on an Object only while keys is not empty and its last key is the name of
\* a field, and never on a literal: no evaluation produces the errors
\* "no query selected" and "literal query can not be updated".
C29_UpdateFindsItsTarget ==
    /\ Running("update") =>
          LET n == heap[Top.q]
          IN  /\ n.kind \in {"any", "array"} => n.last # 0
              /\ n.kind = "object" =>
                    /\ n.keys # <<>>
                    /\ \E i \in 1..Len(n.fkeys) : n.fkeys[i] = n.keys[Len(n.keys)]
              /\ n.kind # "literal"
    /\ ret \notin {ErrNoQuery, ErrLiteral}
    /\ \A i \in 1..Len(stack) : stack[i].err \notin {ErrNoQuery, ErrLiteral}

\* the number grammar of C10: JSON's, less an exponent that is the digit 0
ExponentIsZero(t) ==
    /\ At(t, Len(t)) = "0"
    /\ \/ At(t, Len(t) - 1) \in {"e", "E"}
       \/ At(t, Len(t) - 1) \in {"+", "-"} /\ At(t, Len(t) - 2) \in {"e", "E"}

NumberForm(t) == NumberEnd(t, 1) = Len(t) + 1 /\ ~ExponentIsZero(t)

\* C10: a value that starts with a digit or '-' is accepted exactly when it
\* has the number form
C10_NumberGrammar ==
    (Returned /\ doc.kind = "number")
        => (status = "ok" <=> NumberForm(doc.val.s))

====
